---- MODULE Spec2Model ----
(***************************************************************************)
(* A model of spackbot's worker layer (src/spackbot/workers.py and the     *)
(* handlers that enqueue its tasks): the content-hash extraction, the      *)
(* prune of the shared PR mirror, the job queue with its dedup guard, the  *)
(* pipeline trigger task and the style-fix task.                           *)
(*                                                                         *)
(* Strings are sequences of one-character strings, so that prefixes,       *)
(* suffixes, lower-casing, the hash regex and percent-encoding are         *)
(* computed character by character, as the Python code computes them.      *)
(***************************************************************************)
EXTENDS Integers, Sequences, FiniteSets, TLC

VARIABLES
    hkey,       \* hash harness: the key handed to hash_from_key
    hkey2,      \* hash harness: a second key, for comparing two results
    hres,       \* hash harness: hash_from_key(hkey), or NotCalled
    hres2,      \* hash harness: hash_from_key(hkey2), or NotCalled
    s3,         \* object storage: bucket name -> set of [key, last_modified]
    now,        \* the worker's clock reading (datetime.now()), in ticks
    prune_log,  \* prune harness: one record per run of the prune body
    jobs,       \* the jobs ever enqueued, by job id
    queue,      \* the pending job ids of tasks_long, oldest first
    tasks,      \* the pending job ids of tasks, oldest first
    running,    \* worker -> the id of the job it executes, or NoJob
    pr_graduation,  \* the switch of the graduation branch of close_pr_mirror
    closed,     \* the pull requests whose closing has been handled
    pipeline,   \* one execution of run_pipeline_task and what it did
    style,      \* one execution of fix_style_task and what it did
    race,       \* a copy and a prune of two workers, step by step
    mirror_log, \* mirror harness: one record per call of a mirror task
    auth,       \* the token cache, the clock and the requests being authenticated
    router      \* the events delivered to the router and what it did with them

hvars == <<hkey, hkey2, hres, hres2>>

s3vars == <<s3, now, prune_log>>

qvars == <<jobs, queue, tasks, running, pr_graduation, closed>>

svars == <<auth, router>>

vars == <<hkey, hkey2, hres, hres2, s3, now, prune_log,
          jobs, queue, tasks, running, pr_graduation, closed, pipeline,
          style, race, mirror_log, auth, router>>

(***************************************************************************)
(* The parts of the state an execution leaves alone.                       *)
(***************************************************************************)
NumWorkers == 2

Workers == 1..NumWorkers

\* `copy_job = None` (mirrors.py 47): no job
NoJob == 0

HashIdle ==
    /\ hkey = <<>>
    /\ hkey2 = <<>>
    /\ hres = [type |-> "not called", val |-> <<>>]
    /\ hres2 = [type |-> "not called", val |-> <<>>]

QueueIdle ==
    /\ jobs = <<>>
    /\ queue = <<>>
    /\ tasks = <<>>
    /\ running = [w \in Workers |-> NoJob]
    /\ pr_graduation = FALSE
    /\ closed = {}

PipelineIdle == pipeline = [pc |-> "idle"]

StyleIdle == style = [pc |-> "idle"]

RaceIdle == race = [pc |-> "idle"]

MirrorIdle == mirror_log = <<>>

\* the webhook deliveries the server may be handling at one time
NumRequests == 2

Requests == 1..NumRequests

\* a delivery that is not being authenticated
NoCall == [pc |-> "idle"]

\* TokenCache.__init__ (auth.py 38-40): no token is cached; the clock counts
\* the seconds since the server started
AuthIdle ==
    auth = [now |-> 0,
            tokens |-> [n \in {} |-> 0],
            last |-> {},
            calls |-> [c \in Requests |-> NoCall]]

\* the router before a delivery: nothing waits, nothing was dispatched
NoDispatch == [kind |-> "none"]

RouterIdle ==
    router = [inbox |-> <<>>, jobs |-> <<>>, pushed |-> 0, last |-> NoDispatch,
              sent |-> 0]

ServerIdle == AuthIdle /\ RouterIdle

(***************************************************************************)
(* Python values that hash_from_key can return: None, a list, a str.       *)
(***************************************************************************)
PyNone == [type |-> "NoneType", val |-> <<>>]

PyList(items) == [type |-> "list", val |-> items]

PyStr(chars) == [type |-> "str", val |-> chars]

NotCalled == [type |-> "not called", val |-> <<>>]

\* Python truthiness: None, the empty list and the empty string are false.
Truthy(v) == v.type # "NoneType" /\ v.val # <<>>

(***************************************************************************)
(* Characters.                                                             *)
(***************************************************************************)
LowerSeq ==
    <<"a","b","c","d","e","f","g","h","i","j","k","l","m",
      "n","o","p","q","r","s","t","u","v","w","x","y","z">>

UpperSeq ==
    <<"A","B","C","D","E","F","G","H","I","J","K","L","M",
      "N","O","P","Q","R","S","T","U","V","W","X","Y","Z">>

Digits == {"0","1","2","3","4","5","6","7","8","9"}

Range(s) == {s[i] : i \in DOMAIN s}

\* str.lower() on the upper-case letters
LowerOfUpper ==
    [c \in Range(UpperSeq) |->
        LowerSeq[CHOOSE i \in DOMAIN UpperSeq : UpperSeq[i] = c]]

\* str.lower() on one character
LowerChar(c) == IF c \in DOMAIN LowerOfUpper THEN LowerOfUpper[c] ELSE c

\* str.lower()
Lower(s) == [i \in DOMAIN s |-> LowerChar(s[i])]

Alnum == Range(LowerSeq) \cup Range(UpperSeq) \cup Digits

\* the regex class [a-zA-Z0-9]
IsAlnum(c) == c \in Alnum

RECURSIVE Repeat(_, _)
Repeat(c, n) == IF n = 0 THEN <<>> ELSE <<c>> \o Repeat(c, n - 1)

\* s[from..] (1-based), empty when from is past the end
Drop(s, from) == SubSeq(s, from, Len(s))

\* str.startswith(p)
StartsWith(s, p) == Len(p) <= Len(s) /\ SubSeq(s, 1, Len(p)) = p

\* str.endswith(p)
EndsWith(s, p) ==
    Len(p) <= Len(s) /\ SubSeq(s, Len(s) - Len(p) + 1, Len(s)) = p

\* str.endswith(tuple): any of the suffixes
EndsWithAny(s, suffixes) == \E p \in suffixes : EndsWith(s, p)

(***************************************************************************)
(* hash_from_key (workers.py 458-477).                                     *)
(***************************************************************************)
\* the {32,32} of the regex
HASH_LEN == 32

\* the regex -([a-zA-Z0-9]{32,32})\. matches at position i of s
HashMatchAt(s, i) ==
    /\ s[i] = "-"
    /\ i + HASH_LEN + 1 <= Len(s)
    /\ s[i + HASH_LEN + 1] = "."
    /\ \A k \in 1..HASH_LEN : IsAlnum(s[i + k])

\* re.findall: the captured groups of the matches, left to right.  A match
\* starts with "-" and ends with ".", neither of which is alphanumeric, so
\* two matches never overlap and every matching position is reported.
RECURSIVE FindAllFrom(_, _)
FindAllFrom(s, i) ==
    IF i > Len(s) THEN <<>>
    ELSE IF HashMatchAt(s, i)
         THEN <<SubSeq(s, i + 1, i + HASH_LEN)>>
              \o FindAllFrom(s, i + HASH_LEN + 2)
         ELSE FindAllFrom(s, i + 1)

FindAllHashes(s) == FindAllFrom(s, 1)

hash_from_key(key) ==
    LET h == FindAllHashes(Lower(key))
    IN  IF Len(h) > 1 THEN PyNone
        ELSE IF h # <<>> THEN PyStr(h[1])
        ELSE PyList(h)

(***************************************************************************)
(* The suffixes the code looks for, and hash tokens for sample keys.       *)
(***************************************************************************)
TokA == Repeat("a", HASH_LEN)

\* a token with upper-case letters in it
TokB == <<"Q">> \o Repeat("b", HASH_LEN - 1)

SufSpack == <<".","s","p","a","c","k">>

SufSpecJson == <<".","s","p","e","c",".","j","s","o","n">>

SufSpecYaml == <<".","s","p","e","c",".","y","a","m","l">>

SufSpecJsonSig == <<".","s","p","e","c",".","j","s","o","n",".","s","i","g">>

SufTxt == <<".","t","x","t">>

(***************************************************************************)
(* Configuration (helpers.py) and URL parsing.                             *)
(***************************************************************************)
pr_mirror_base_url ==
    <<"s","3",":","/","/","s","p","a","c","k","-","b","i","n","a","r","i","e","s","-","p","r","s">>

pr_shared_mirror ==
    <<"s","h","a","r","e","d","_","p","r","_","m","i","r","r","o","r">>

publish_mirror_base_url ==
    <<"s","3",":","/","/","s","p","a","c","k","-","b","i","n","a","r","i","e","s">>

pr_expected_base == <<"d","e","v","e","l","o","p">>

\* SHARED_PR_MIRROR_RETIRE_AFTER_DAYS, by default
shared_pr_mirror_retire_after_days == 7

default_bucket ==
    <<"s","p","a","c","k","-","b","i","n","a","r","i","e","s","-","p","r","s">>

default_prefix == <<"d","u","m","m","y">>

\* the least index >= from of a character of chars in s, Len(s) + 1 if none
RECURSIVE FirstOf(_, _, _)
FirstOf(s, chars, from) ==
    IF from > Len(s) THEN Len(s) + 1
    ELSE IF s[from] \in chars THEN from
    ELSE FirstOf(s, chars, from + 1)

\* str.strip(c)
RECURSIVE Strip(_, _)
Strip(s, c) ==
    IF s = <<>> THEN s
    ELSE IF s[1] = c THEN Strip(Tail(s), c)
    ELSE IF s[Len(s)] = c THEN Strip(SubSeq(s, 1, Len(s) - 1), c)
    ELSE s

\* urllib.parse.urlparse, for a URL scheme://netloc/path?query#fragment:
\* the scheme ends at the first ":", the netloc at the first of "/?#",
\* the path at the first of "?#"
urlparse(url) ==
    LET colon == FirstOf(url, {":"}, 1)
        has_netloc == StartsWith(Drop(url, colon + 1), <<"/", "/">>)
        netloc_from == IF has_netloc THEN colon + 3 ELSE colon + 1
        netloc_end == IF has_netloc
                      THEN FirstOf(url, {"/", "?", "#"}, netloc_from)
                      ELSE netloc_from
        path_end == FirstOf(url, {"?", "#"}, netloc_end)
    IN  [scheme |-> SubSeq(url, 1, colon - 1),
         netloc |-> SubSeq(url, netloc_from, netloc_end - 1),
         path   |-> SubSeq(url, netloc_end, path_end - 1)]

s3_parse_url(url) ==
    LET parsed == urlparse(url)
    IN  IF parsed.scheme = <<"s", "3">>
        THEN [bucket |-> parsed.netloc, prefix |-> Strip(parsed.path, "/")]
        ELSE [bucket |-> default_bucket, prefix |-> default_prefix]

\* f"{pr_mirror_base_url}/{pr_shared_mirror}" (mirrors.py 43)
shared_pr_mirror_url == pr_mirror_base_url \o <<"/">> \o pr_shared_mirror

\* f"{shared_pr_mirror_url}/{{stack}}" with the stack filled in by format_map
shared_stack_pr_mirror_url(stack) == shared_pr_mirror_url \o <<"/">> \o stack

\* f"{publish_mirror_base_url}/{{stack}}/{pr_expected_base}", stack filled in
publish_stack_mirror_url(stack) ==
    publish_mirror_base_url \o <<"/">> \o stack \o <<"/">> \o pr_expected_base

PrsBucket == s3_parse_url(pr_mirror_base_url).bucket

PubBucket == s3_parse_url(publish_mirror_base_url).bucket

(***************************************************************************)
(* Object storage: listing by prefix in key order.                         *)
(***************************************************************************)
\* the characters of the model in code-point order (S3 lists keys in
\* UTF-8 binary order)
CodeOrder ==
    <<" ", "#", "%", "+", "-", ".", "/",
      "0","1","2","3","4","5","6","7","8","9", ":", "?">>
    \o UpperSeq \o <<"_">> \o LowerSeq \o <<"~">>

CodeOf == [c \in Range(CodeOrder) |->
              CHOOSE i \in DOMAIN CodeOrder : CodeOrder[i] = c]

RECURSIVE KeyLess(_, _)
KeyLess(a, b) ==
    IF b = <<>> THEN FALSE
    ELSE IF a = <<>> THEN TRUE
    ELSE IF a[1] # b[1] THEN CodeOf[a[1]] < CodeOf[b[1]]
    ELSE KeyLess(Tail(a), Tail(b))

\* bucket.objects.filter(Prefix=prefix)
ListObjects(objects, prefix) == {o \in objects : StartsWith(o.key, prefix)}

\* list_ci_stacks: the stacks of the cloned repository, in listing order
Stacks == << <<"e","4","s","-","m","a","c">>, <<"e","4","s">> >>

\* the two mirrors of each stack (538-549), parsed once
StackMirrors ==
    [i \in DOMAIN Stacks |->
        [shared_pr_url |-> s3_parse_url(shared_stack_pr_mirror_url(Stacks[i])),
         publish_url |-> s3_parse_url(publish_stack_mirror_url(Stacks[i]))]]

(***************************************************************************)
(* The object keys of the model.                                           *)
(***************************************************************************)
TokC == Repeat("c", HASH_LEN)

SharedPrefix(i) == StackMirrors[i].shared_pr_url.prefix

PublishPrefix(i) == StackMirrors[i].publish_url.prefix

Named(prefix, hashes, suffix) == prefix \o <<"/", "x">> \o hashes \o suffix

DashA == <<"-">> \o TokA

DashC == <<"-">> \o TokC

SharedKeys ==
    { Named(SharedPrefix(2), DashA, SufSpack),
      Named(SharedPrefix(2), DashA, SufSpecJson),
      Named(SharedPrefix(2), DashC, SufSpecJson),
      Named(SharedPrefix(2), <<>>, SufSpecJson),
      Named(SharedPrefix(2), DashA \o <<".", "x">> \o DashC, SufSpecJson),
      Named(SharedPrefix(2), DashC, SufTxt),
      Named(SharedPrefix(1), DashA, SufSpecJson) }

PublishedKeys ==
    { Named(PublishPrefix(2), DashA, SufSpecJson),
      Named(PublishPrefix(1), DashA, SufSpecJson),
      Named(PublishPrefix(1), <<>>, SufSpecJson) }

\* an archive in its directory below the build cache, where the spec files
\* lie: <dir>/x-<hash>.spec.json and <dir>/x/x-<hash>.spack
Nested(prefix, hashes, suffix) ==
    prefix \o <<"/", "x", "/", "x">> \o hashes \o suffix

ArchiveKeys == { Nested(SharedPrefix(2), DashA, SufSpack) }

(***************************************************************************)
(* The mirror of one pull request (mirrors.py 33-42).                      *)
(***************************************************************************)
DigitSeq == <<"0","1","2","3","4","5","6","7","8","9">>

\* str(n) for n >= 0, as the f-strings format a number
RECURSIVE DecimalStr(_)
DecimalStr(n) ==
    IF n < 10 THEN <<DigitSeq[n + 1]>>
    ELSE DecimalStr(n \div 10) \o <<DigitSeq[(n % 10) + 1]>>

\* payload["pull_request"]["head"]["ref"] of the pull requests, by number
PrBranches == << <<"a">>, <<"b">> >>

PRs == DOMAIN PrBranches

\* event.data["repository"]["name"]
event_project == <<"s","p","a","c","k">>

\* a base branch other than pr_expected_base
OtherBase == <<"r","e","l","e","a","s","e","s">>

\* f"{pr_mirror_base_url}/{event_project}/pr{pr_number}_{pr_branch}"
\* (mirrors.py 42)
pr_mirror_url(project, number, pr_branch) ==
    pr_mirror_base_url \o <<"/">> \o project \o <<"/", "p", "r">>
        \o number \o <<"_">> \o pr_branch

\* the url close_pr_mirror builds for a pull request of the model
close_pr_mirror_url(pr_number) ==
    pr_mirror_url(event_project, DecimalStr(pr_number), PrBranches[pr_number])

\* an object of a PR mirror, under the stack e4s
PrKey(pr_number, hashes, suffix) ==
    Named(s3_parse_url(close_pr_mirror_url(pr_number)).prefix
              \o <<"/">> \o Stacks[2],
          hashes, suffix)

\* the keys of a pull request's own mirror in the prune harness
PrMirrorKeys == { PrKey(1, DashA, SufSpack) }

ModelKeys == SharedKeys \cup PublishedKeys \cup ArchiveKeys \cup PrMirrorKeys

\* hash_from_key on the keys of the model, computed once
HashTable == [k \in ModelKeys |-> hash_from_key(k)]

HashFromKey(k) == HashTable[k]

(***************************************************************************)
(* prune_mirror_duplicates (workers.py 512-622), one stack at a time.      *)
(***************************************************************************)
\* the resolution of the clock
TicksPerDay == 2

\* timedelta.days: whole days, rounded down
Days(delta) == delta \div TicksPerDay

SpecExtensions == {SufSpecJson, SufSpecYaml, SufSpecJsonSig}

\* the second scan without line 608: the spec file extensions alone
SpecExtensionsOnly == {SufSpecJson, SufSpecYaml, SufSpecJsonSig}

\* extensions = (".spack", *extensions) (608)
ArchiveAndSpecExtensions == {SufSpack} \cup SpecExtensions

\* `x in some_set` raises TypeError for an unhashable x (a list)
Hashable(v) == v.type # "list"

\* (now - last_modified).days >= helpers.shared_pr_mirror_retire_after_days
PastRetirement(o, t) ==
    Days(t - o.last_modified) >= shared_pr_mirror_retire_after_days

\* the second scan with a break after its first deletion
SecondScanDeletes_break(reached, delete_specs) ==
    LET hits == {o \in reached : HashFromKey(o.key) \in delete_specs}
    IN  {o \in hits : \A other \in hits : ~KeyLess(other.key, o.key)}

\* the objects the second scan deletes (617-622), of those it reaches
SecondScanDeletes(reached, delete_specs) ==
    {o \in reached : HashFromKey(o.key) \in delete_specs}

\* the listing of the shared mirror's bucket without the Prefix filter
SharedListing_whole_bucket(store, i) ==
    store[StackMirrors[i].shared_pr_url.bucket]

\* bucket.objects.filter(Prefix=shared_pr_url.prefix) (554-557, 607-610)
SharedListing(store, i) ==
    ListObjects(store[StackMirrors[i].shared_pr_url.bucket],
                StackMirrors[i].shared_pr_url.prefix)

\* bucket.objects.filter(Prefix=publish_url.prefix) (596-599)
PublishedListing(store, i) ==
    ListObjects(store[StackMirrors[i].publish_url.bucket],
                StackMirrors[i].publish_url.prefix)

\* the hashes recorded for a set of objects: `if spec_hash:` keeps the
\* truthy ones
TruthyHashesOf(objects) ==
    {h \in {HashFromKey(o.key) : o \in objects} : Truthy(h)}

\* first scan (554-594): the objects past retirement, which it deletes
Aged(listing, t) == {o \in listing : PastRetirement(o, t)}

\* first scan: the hashes of the objects it deleted
ExpiredSpecs(listing, t) == TruthyHashesOf(Aged(listing, t))

\* first scan: the hashes of the spec files it kept
SharedPrSpecs(listing, t) ==
    TruthyHashesOf({x \in listing \ Aged(listing, t) :
                       EndsWithAny(x.key, SpecExtensions)})

\* scan of the published mirror (596-605): the spec files it looks at
PubSpecs(store, i) ==
    {o \in PublishedListing(store, i) : EndsWithAny(o.key, SpecExtensions)}

\* `hash_from_key(obj.key.lower()) in shared_pr_specs` raises on a list
PublishScanRaises(store, i) ==
    \E o \in PubSpecs(store, i) : ~Hashable(HashFromKey(Lower(o.key)))

\* the shared hashes the published mirror has as well
Duplicated(store, i, shared_pr_specs) ==
    {h \in shared_pr_specs :
        \E o \in PubSpecs(store, i) : HashFromKey(Lower(o.key)) = h}

\* second scan (607-622): the archives and spec files of the shared mirror
Candidates(store, i) ==
    {o \in SharedListing(store, i) :
        EndsWithAny(o.key, ArchiveAndSpecExtensions)}

\* `hash_from_key(obj.key) in delete_specs` raises on a list
Unhashable(store, i) ==
    {o \in Candidates(store, i) : ~Hashable(HashFromKey(o.key))}

\* the second scan goes in key order, up to the first key whose hash is a list
Reached(store, i) ==
    {o \in Candidates(store, i) :
        \A b \in Unhashable(store, i) : KeyLess(o.key, b.key)}

\* the second scan, given what the first two recorded
SecondScan(store, i, expired_specs, duplicated) ==
    [store |-> [store EXCEPT ![StackMirrors[i].shared_pr_url.bucket] =
                   @ \ SecondScanDeletes(Reached(store, i),
                                         expired_specs \cup duplicated)],
     raised |-> Unhashable(store, i) # {},
     expired_specs |-> expired_specs,
     duplicated |-> duplicated]

\* the published scan and the second scan, after the first scan's deletions
PruneAfterFirstScan(store, i, expired_specs, shared_pr_specs) ==
    IF PublishScanRaises(store, i)
    THEN [store |-> store, raised |-> TRUE,
          expired_specs |-> expired_specs, duplicated |-> {}]
    ELSE SecondScan(store, i, expired_specs,
                    Duplicated(store, i, shared_pr_specs))

\* the body of the loop over the stacks, for one stack: the store afterwards,
\* whether it raised, and what it recorded; the first scan lists the shared
\* mirror once
PruneStack(store, i, t) ==
    CHOOSE pass \in
        {PruneAfterFirstScan(
             [store EXCEPT ![StackMirrors[i].shared_pr_url.bucket] =
                 @ \ Aged(listing, t)],
             i,
             ExpiredSpecs(listing, t),
             SharedPrSpecs(listing, t)) :
         listing \in {SharedListing(store, i)}} : TRUE

\* what a run's log keeps of one stack's pass
PassRecord(pass) ==
    [raised |-> pass.raised,
     store |-> pass.store,
     expired_specs |-> pass.expired_specs,
     duplicated |-> pass.duplicated]

\* a pass followed by the passes after it
PrependPass(pass, rest) ==
    [store |-> rest.store,
     raised |-> rest.raised,
     passes |-> <<PassRecord(pass)>> \o rest.passes]

\* the loop over the stacks from the i-th on; an exception ends it
RECURSIVE PruneStacksFrom(_, _, _)
RECURSIVE PruneStacksAfter(_, _, _)
PruneStacksFrom(store, i, t) ==
    IF i > Len(Stacks) THEN [store |-> store, raised |-> FALSE, passes |-> <<>>]
    ELSE CHOOSE run \in {PruneStacksAfter(pass, i, t) :
                             pass \in {PruneStack(store, i, t)}} : TRUE

PruneStacksAfter(pass, i, t) ==
    IF pass.raised
    THEN [store |-> pass.store, raised |-> TRUE,
          passes |-> <<PassRecord(pass)>>]
    ELSE PrependPass(pass, PruneStacksFrom(pass.store, i + 1, t))

\* the body of prune_mirror_duplicates after the skip check and the clone
PruneBody(store, t) == PruneStacksFrom(store, 1, t)

(***************************************************************************)
(* The prune harness: bounded mirrors, then runs of the prune body.        *)
(***************************************************************************)
MaxShared == 3

MaxPruneRuns == 2

\* the ages of the shared objects at the first clock reading, in ticks
Ages == { 6 * TicksPerDay, 7 * TicksPerDay - 1, 7 * TicksPerDay, 8 * TicksPerDay }

Now0 == 10 * TicksPerDay

SharedContents ==
    UNION { { {[key |-> k, last_modified |-> Now0 - age[k]] : k \in K} :
                age \in [K -> Ages] } :
            K \in {X \in SUBSET SharedKeys : Cardinality(X) <= MaxShared} }

PublishedContents ==
    { {[key |-> k, last_modified |-> 0] : k \in K} : K \in SUBSET PublishedKeys }

S3Idle ==
    /\ s3 = [b \in {PrsBucket, PubBucket} |-> {}]
    /\ now = 0
    /\ prune_log = <<>>

\* what the mirror of an open pull request holds beside the shared mirror,
\* in the same bucket: an archive past the retirement age
PrMirrorContents ==
    {[key |-> k, last_modified |-> Now0 - 8 * TicksPerDay] :
        k \in PrMirrorKeys}

InitPrune ==
    /\ \E shared \in SharedContents, published \in PublishedContents :
        s3 = [b \in {PrsBucket, PubBucket} |->
                 IF b = PrsBucket THEN shared \cup PrMirrorContents
                 ELSE published]
    /\ now = Now0
    /\ prune_log = <<>>
    /\ HashIdle
    /\ QueueIdle
    /\ PipelineIdle
    /\ RaceIdle
    /\ MirrorIdle
    /\ ServerIdle
    /\ StyleIdle

\* one run of the prune body, at the clock reading now
PruneRun ==
    /\ Len(prune_log) < MaxPruneRuns
    /\ \E run \in {PruneBody(s3, now)} :
           /\ s3' = run.store
           /\ prune_log' = Append(prune_log,
                  [before |-> s3, after |-> run.store, at |-> now,
                   raised |-> run.raised, passes |-> run.passes])
    /\ UNCHANGED now
    /\ UNCHANGED <<hvars, svars, qvars, pipeline, style, race, mirror_log>>

NextPrune == PruneRun

SpecPrune == InitPrune /\ [][NextPrune]_vars

(***************************************************************************)
(* Object keys for the harness: concatenations of up to MaxPieces pieces.  *)
(***************************************************************************)
MaxPieces == 6

Pieces == {<<"-">>, TokA, TokB, SufSpack, SufTxt}

RECURSIVE KeysOfPieces(_)
KeysOfPieces(n) ==
    IF n = 0 THEN {<<>>}
    ELSE LET shorter == KeysOfPieces(n - 1)
         IN  shorter \cup {p \o k : p \in Pieces, k \in shorter}

HashKeys == KeysOfPieces(MaxPieces)

\* three fixed keys to compare with: no hash, one hash, two hashes
HashSampleKeys ==
    { SufTxt,
      <<"-">> \o TokA \o SufSpack,
      <<"-">> \o TokA \o SufSpack \o <<"-">> \o TokB \o SufSpecJson }

InitHash ==
    /\ hkey \in HashKeys
    /\ hkey2 = <<>>
    /\ hres = NotCalled
    /\ hres2 = NotCalled
    /\ S3Idle
    /\ QueueIdle
    /\ PipelineIdle
    /\ RaceIdle
    /\ MirrorIdle
    /\ ServerIdle
    /\ StyleIdle

\* the call hash_from_key(hkey)
HashCall ==
    /\ hres = NotCalled
    /\ hres' = hash_from_key(hkey)
    /\ UNCHANGED <<hkey, hkey2, hres2>>
    /\ UNCHANGED <<svars, s3vars, qvars, pipeline, style, race, mirror_log>>

\* a second call, on one of the sample keys
HashCall2 ==
    /\ hres # NotCalled
    /\ hres2 = NotCalled
    /\ \E k \in HashSampleKeys :
        /\ hkey2' = k
        /\ hres2' = hash_from_key(k)
    /\ UNCHANGED <<hkey, hres>>
    /\ UNCHANGED <<svars, s3vars, qvars, pipeline, style, race, mirror_log>>

NextHash == HashCall \/ HashCall2

SpecHash == InitHash /\ [][NextHash]_vars

(***************************************************************************)
(* C4.  What the specification calls a key's hash tokens: the places where *)
(* a run of exactly HASH_LEN alphanumeric characters is immediately        *)
(* followed by one of the recognized suffixes.                             *)
(***************************************************************************)
RecognizedSuffixes == {SufSpack, SufSpecJson, SufSpecYaml, SufSpecJsonSig}

TokenAt(s, i) ==
    /\ i + HASH_LEN - 1 <= Len(s)
    /\ \A k \in 0..(HASH_LEN - 1) : IsAlnum(s[i + k])
    /\ i = 1 \/ ~IsAlnum(s[i - 1])
    /\ \E suf \in RecognizedSuffixes : StartsWith(Drop(s, i + HASH_LEN), suf)

TokenPlaces(s) == {i \in DOMAIN s : TokenAt(s, i)}

TheToken(s) ==
    LET i == CHOOSE j \in TokenPlaces(s) : TRUE
    IN  SubSeq(s, i, i + HASH_LEN - 1)

\* C4 (as claimed): a key with exactly one 32-character alphanumeric token
\* before a recognized suffix yields that token; a key with none and a key
\* with two or more yield one and the same value, which is not a hash.
C4_HashExtractionAsClaimed ==
    /\ (hres # NotCalled /\ Cardinality(TokenPlaces(hkey)) = 1)
        => hres = PyStr(TheToken(hkey))
    /\ (hres # NotCalled /\ Cardinality(TokenPlaces(hkey)) # 1)
        => hres.type # "str"
    /\ ( /\ hres # NotCalled
         /\ hres2 # NotCalled
         /\ Cardinality(TokenPlaces(hkey)) # 1
         /\ Cardinality(TokenPlaces(hkey2)) # 1 )
        => hres = hres2

\* C4 (as claimed, its second half): a key with no such token and a key with
\* two or more yield one and the same value.
C4_OneIndeterminateValue ==
    ( /\ hres # NotCalled
      /\ hres2 # NotCalled
      /\ Cardinality(TokenPlaces(hkey)) = 0
      /\ Cardinality(TokenPlaces(hkey2)) > 1 )
    => hres = hres2

(***************************************************************************)
(* C2, C3: the prune.                                                      *)
(***************************************************************************)
SharedMirror(store) == ListObjects(store[PrsBucket], pr_shared_mirror)

AgeAt(o, t) == t - o.last_modified

\* C2: a second run of the prune right after a first, at the same clock
\* reading and with no write to either mirror in between, deletes nothing:
\* the store after the second run is the store after the first.
C2_PruneIdempotent ==
    \A i \in 2..Len(prune_log) :
        ( /\ prune_log[i].at = prune_log[i - 1].at
          /\ prune_log[i].before = prune_log[i - 1].after )
        => prune_log[i].after = prune_log[i - 1].after

\* C2 witness: two runs were made, and the first deleted for age and for
\* a hash that is also published.
C2_Witness ==
    /\ Len(prune_log) >= 2
    /\ prune_log[2].at = prune_log[1].at
    /\ \E o \in prune_log[1].before[PrsBucket] \ prune_log[1].after[PrsBucket] :
          ~PastRetirement(o, prune_log[1].at)
    /\ \E o \in prune_log[1].before[PrsBucket] \ prune_log[1].after[PrsBucket] :
          PastRetirement(o, prune_log[1].at)

\* C3 (as claimed), first half: a shared-mirror object last modified 8 days
\* before a prune pass is gone after it.
C3_EightDaysDeleted ==
    \A i \in DOMAIN prune_log :
        \A o \in SharedMirror(prune_log[i].before) :
            AgeAt(o, prune_log[i].at) = 8 * TicksPerDay
            => o \notin prune_log[i].after[PrsBucket]

\* C3 (as claimed), second half: a shared-mirror object 6 days old is still
\* there after the pass unless its hash also appears in the published mirror.
C3_SixDaysRetained ==
    \A i \in DOMAIN prune_log :
        \A o \in SharedMirror(prune_log[i].before) :
            ( /\ AgeAt(o, prune_log[i].at) = 6 * TicksPerDay
              /\ o \notin prune_log[i].after[PrsBucket] )
            => \E p \in prune_log[i].before[PubBucket] :
                  /\ Truthy(hash_from_key(p.key))
                  /\ hash_from_key(p.key) = hash_from_key(o.key)

\* C3 (as claimed): age-based retirement with the threshold of 7 days.
C3_AgeRetirementAsClaimed == C3_EightDaysDeleted /\ C3_SixDaysRetained

(***************************************************************************)
(* The long task queue and its workers: close_pr_mirror (handlers/         *)
(* mirrors.py 28-110) enqueues the mirror jobs; worker processes take them *)
(* off the queue one at a time and run the task functions of workers.py.   *)
(***************************************************************************)
\* the most jobs that raise in one behaviour
MaxRaises == 1

\* a job enqueued without depends_on
NoDependency(job) == NoJob

\* depends_on=copy_job of the prune job (mirrors.py 84)
PruneDependsOn(copy_job) == copy_job

\* depends_on=prune_job of the reindex job (mirrors.py 96)
ReindexDependsOn(prune_job) == prune_job

\* a delete job held back for the first job ever enqueued
DependsOnFirstJob(copy_job) == 1

\* depends_on=copy_job of the delete job (mirrors.py 108)
DeleteDependsOn(copy_job) == copy_job

\* TASK_QUEUE_SHORT and TASK_QUEUE_LONG (workers.py 29-30)
TASK_QUEUE_SHORT == "tasks"

TASK_QUEUE_LONG == "tasks_long"

\* WORKER_JOB_TIMEOUT of workers.py (34), in seconds
WORKER_JOB_TIMEOUT == 21600

\* WORKER_JOB_TIMEOUT of handlers/mirrors.py (23)
mirrors_WORKER_JOB_TIMEOUT == 6 * 60 * 60

\* an enqueue call that passes a retry count
RetryOnce(func) == 1

\* the retries a job is enqueued with: none of the enqueue calls passes
\* retry= (mirrors.py 63-109, gitlab.py 31-37 and 51-57)
Retries(func) == 0

\* a job as Queue.enqueue creates it: queued, or deferred while it has a
\* dependency.  type and pr_number are job.meta.get("type", "-") and
\* job.meta.get("pr_number", None) (workers.py 490, 504); starts, worker, pending_at_start,
\* pending_at_check, outcome and failure_requests record what happened to
\* it (worker: for the jobs that call check_skip_job; pending_at_check: the
\* jobs of its type on the queue when its task began, if it skipped or has
\* no skip check)
Enqueued(func, origin, meta, job_timeout, on_failure, event, depends_on) ==
    [func |-> func,
     origin |-> origin,
     meta |-> meta,
     type |-> IF "type" \in DOMAIN meta THEN meta.type ELSE "-",
     pr_number |-> IF "pr_number" \in DOMAIN meta THEN meta.pr_number
                   ELSE NoJob,
     job_timeout |-> job_timeout,
     on_failure |-> on_failure,
     retries_left |-> Retries(func),
     event |-> event,
     depends_on |-> depends_on,
     status |-> IF depends_on = NoJob THEN "queued" ELSE "deferred",
     starts |-> 0,
     worker |-> NoJob,
     pending_at_start |-> {},
     pending_at_check |-> {},
     outcome |-> "none",
     failure_requests |-> <<>>]

\* a job of close_pr_mirror: on tasks_long, with job_metadata (mirrors.py
\* 48-52) and the timeout, and without on_failure
NewJob(func, type, pr_number, event, depends_on) ==
    Enqueued(func, TASK_QUEUE_LONG,
             [type |-> type, pr_number |-> pr_number,
              pr_branch |-> PrBranches[pr_number]],
             mirrors_WORKER_JOB_TIMEOUT, "none", event, depends_on)

\* the jobs close_pr_mirror enqueues for a closed pull request, when n jobs
\* were enqueued before (mirrors.py 47-110)
CloseJobs(n, event, pr_number, is_merged, base_branch) ==
    IF pr_graduation /\ is_merged /\ base_branch = pr_expected_base
    THEN << NewJob("copy_pr_mirror", "copy", pr_number, event, NoJob),
            NewJob("prune_mirror_duplicates", "prune", pr_number, event,
                   PruneDependsOn(n + 1)),
            NewJob("update_mirror_index", "reindex", pr_number, event,
                   ReindexDependsOn(n + 2)),
            NewJob("delete_pr_mirror", "delete", pr_number, event,
                   DeleteDependsOn(n + 1)) >>
    ELSE << NewJob("delete_pr_mirror", "delete", pr_number, event,
                   DeleteDependsOn(NoJob)) >>

\* the ids, in enqueue order, of those of the new jobs that go on the queue
QueuedIds(n, new) ==
    SelectSeq([i \in 1..Len(new) |-> n + i],
              LAMBDA id : new[id - n].status = "queued")

\* close_pr_mirror on one pull_request event
close_pr_mirror(state, is_merged, base_branch, pr_number) ==
    /\ IF state # "closed"
       THEN UNCHANGED <<jobs, queue, closed>>
       ELSE /\ closed' = closed \cup {pr_number}
            /\ jobs' = jobs \o CloseJobs(Len(jobs), Cardinality(closed) + 1,
                                         pr_number, is_merged, base_branch)
            /\ queue' = queue \o
                   QueuedIds(Len(jobs),
                             CloseJobs(Len(jobs), Cardinality(closed) + 1,
                                       pr_number, is_merged, base_branch))
    /\ UNCHANGED <<tasks, running, pr_graduation>>
    /\ UNCHANGED <<hvars, svars, s3vars, pipeline, style, race, mirror_log>>

PullRequestEvent ==
    \E state \in {"open", "closed"}, is_merged \in BOOLEAN,
       base_branch \in {pr_expected_base, OtherBase},
       pr_number \in PRs \ closed :
        close_pr_mirror(state, is_merged, base_branch, pr_number)

\* the meta types of the jobs that call check_skip_job
GuardedTypes == {"prune", "reindex"}

\* the pending jobs of queue q with the meta type of job j, for a job that
\* calls check_skip_job
SameTypePending(j, q, js) ==
    {k \in Range(q) : js[j].type \in GuardedTypes /\ js[k].type = js[j].type}

\* check_skip_job always answering False
check_skip_job_never(j, q, js) == FALSE

\* check_skip_job finding the current job among the jobs it looks through
check_skip_job_with_itself(j, q, js) ==
    \E k \in Range(q) \cup {j} : js[k].type = js[j].type

\* check_skip_job (workers.py 480-508): is a job with the meta type of job j
\* among queue.jobs?
check_skip_job(j, q, js) == \E k \in Range(q) : js[k].type = js[j].type

\* a worker takes the oldest pending job off the queue and starts it
Dequeue(w) ==
    /\ running[w] = NoJob
    /\ queue # <<>>
    /\ running' = [running EXCEPT ![w] = Head(queue)]
    /\ queue' = Tail(queue)
    /\ jobs' = [jobs EXCEPT
                 ![Head(queue)].status = "started",
                 ![Head(queue)].starts = @ + 1,
                 ![Head(queue)].worker =
                     IF jobs[Head(queue)].type \in GuardedTypes
                     THEN w ELSE NoJob,
                 ![Head(queue)].pending_at_start =
                     SameTypePending(Head(queue), Tail(queue), jobs)]
    /\ UNCHANGED <<tasks, pr_graduation, closed>>
    /\ UNCHANGED <<hvars, svars, s3vars, pipeline, style, race, mirror_log>>

\* whether the jobs held back for a job go on the queue when it ends in the
\* given status: the enqueue calls give depends_on a job (mirrors.py 84, 96,
\* 108), not a Dependency with allow_failure, and the queue then releases a
\* dependent only after a dependency that finished
dependencies_are_met(status) == status = "finished"

\* the jobs held back for job j that go on the queue, oldest first, when
\* job j ends in the given status
Dependents(js, j, status) ==
    SelectSeq([i \in 1..Len(js) |-> i],
              LAMBDA k : /\ js[k].status = "deferred"
                         /\ js[k].depends_on = j
                         /\ dependencies_are_met(status))

\* post_failure_message always posting without a token
post_failure_token_none(meta) == "None"

\* the token of post_failure_message (workers.py 107-109)
post_failure_token(meta) ==
    IF "token" \in DOMAIN meta THEN meta.token ELSE "None"

\* helpers.synchronous_http_request (helpers.py 215-264) as
\* post_failure_message calls it (workers.py 111-114): one request with
\* the bearer token, outside any session of the task
post_failure_message(meta, msg) ==
    [via |-> "synchronous_http_request",
     url |-> meta.post_comments_url,
     authorization |-> IF post_failure_token(meta) # "None"
                       THEN <<"Bearer", post_failure_token(meta)>>
                       ELSE <<>>,
     body |-> msg]

\* what the on_failure hook of a job posts when its task ends with the
\* given exception: report_pipeline_failure (workers.py 125-132), or
\* nothing for a job enqueued without on_failure
failure_hook(job, exception) ==
    IF job.on_failure = "report_pipeline_failure"
    THEN << post_failure_message(
                job.meta,
                [kind |-> "error",
                 text |-> "I encountered an error attempting to run the pipeline.",
                 exception |-> exception]) >>
    ELSE <<>>

\* a job that failed goes back on its queue while it has retries left
Requeued(job, status) == status = "failed" /\ job.retries_left > 0

\* the job table once job j has ended in the given status
Ended(js, j, status, outcome, seen) ==
    [k \in DOMAIN js |->
        IF k = j
        THEN [js[k] EXCEPT
                 !.status = IF Requeued(js[k], status) THEN "queued"
                            ELSE status,
                 !.retries_left = IF Requeued(js[k], status) THEN @ - 1
                                  ELSE @,
                 !.outcome = outcome,
                 !.pending_at_check = seen,
                 !.failure_requests =
                     IF status = "failed"
                     THEN @ \o failure_hook(js[k], outcome) ELSE @]
        ELSE IF /\ js[k].status = "deferred"
                /\ js[k].depends_on = j
                /\ dependencies_are_met(status)
             THEN [js[k] EXCEPT !.status = "queued"]
             ELSE js[k]]

\* the end of worker w's job
EndJob(w, status, outcome, seen) ==
    /\ jobs' = Ended(jobs, running[w], status, outcome, seen)
    /\ queue' = queue \o Dependents(jobs, running[w], status)
                 \o IF /\ Requeued(jobs[running[w]], status)
                       /\ jobs[running[w]].origin = TASK_QUEUE_LONG
                    THEN <<running[w]>> ELSE <<>>
    /\ tasks' = tasks
                 \o IF /\ Requeued(jobs[running[w]], status)
                       /\ jobs[running[w]].origin = TASK_QUEUE_SHORT
                    THEN <<running[w]>> ELSE <<>>
    /\ running' = [running EXCEPT ![w] = NoJob]
    /\ UNCHANGED <<pr_graduation, closed>>
    /\ UNCHANGED <<hvars, svars, now, prune_log, pipeline, style, race, mirror_log>>

\* worker w executes a job of the given task function
Executes(w, func) ==
    /\ running[w] # NoJob
    /\ jobs[running[w]].func = func

\* the copy without the test of the extension
CopiedKeys_any_suffix(store, pr_url, shared_pr_url) ==
    { shared_pr_url.prefix \o Drop(o.key, Len(pr_url.prefix) + 1) :
        o \in ListObjects(store[pr_url.bucket], pr_url.prefix) }

\* the keys copy_pr_mirror writes (workers.py 412-421): the first occurrence
\* of the PR prefix, which a listed key starts with, becomes the shared prefix
CopiedKeys(store, pr_url, shared_pr_url) ==
    { shared_pr_url.prefix \o Drop(o.key, Len(pr_url.prefix) + 1) :
        o \in {x \in ListObjects(store[pr_url.bucket], pr_url.prefix) :
                  EndsWithAny(x.key, ArchiveAndSpecExtensions)} }

\* copy_pr_mirror (workers.py 394-428), at the clock reading t
copy_pr_mirror(store, pr_url, shared_pr_url, t) ==
    [store EXCEPT ![shared_pr_url.bucket] =
        {o \in @ : o.key \notin CopiedKeys(store, pr_url, shared_pr_url)}
        \cup {[key |-> k, last_modified |-> t] :
                 k \in CopiedKeys(store, pr_url, shared_pr_url)}]

\* the delete without the prefix filter
delete_pr_mirror_bucket(store, pr_url) ==
    [store EXCEPT ![pr_url.bucket] = {}]

\* delete_pr_mirror (workers.py 431-443)
delete_pr_mirror(store, pr_url) ==
    [store EXCEPT ![pr_url.bucket] = @ \ ListObjects(@, pr_url.prefix)]

\* helpers.s3_parse_url(pr_mirror_url) of each pull request's mirror
\* (workers.py 400, 433), parsed once
PrMirrors == [n \in PRs |-> s3_parse_url(close_pr_mirror_url(n))]

\* helpers.s3_parse_url(shared_pr_mirror_url) (workers.py 401), parsed once
SharedPrMirror == s3_parse_url(shared_pr_mirror_url)

\* the jobs of queue q with the meta type of job j, whether or not job j
\* looks for them
PendingOfType(j, q, js) == {k \in Range(q) : js[k].type = js[j].type}

\* a worker runs copy_pr_mirror as its job; the job's record keeps the copy
\* jobs that were pending meanwhile
RunCopy(w) ==
    /\ Executes(w, "copy_pr_mirror")
    /\ s3' = copy_pr_mirror(s3, PrMirrors[jobs[running[w]].pr_number],
                             SharedPrMirror, now)
    /\ EndJob(w, "finished", "performed",
              PendingOfType(running[w], queue, jobs))

\* delete_pr_mirror behind the skip check of the prune and the reindex
RunDelete_deduplicated(w) ==
    /\ Executes(w, "delete_pr_mirror")
    /\ IF check_skip_job(running[w], queue, jobs)
       THEN /\ s3' = s3
            /\ EndJob(w, "finished", "skipped",
                      PendingOfType(running[w], queue, jobs))
       ELSE /\ s3' = delete_pr_mirror(s3,
                                      PrMirrors[jobs[running[w]].pr_number])
            /\ EndJob(w, "finished", "performed", {})

\* a worker runs delete_pr_mirror as its job; the job's record keeps the
\* delete jobs that were pending meanwhile
RunDelete(w) ==
    /\ Executes(w, "delete_pr_mirror")
    /\ s3' = delete_pr_mirror(s3, PrMirrors[jobs[running[w]].pr_number])
    /\ EndJob(w, "finished", "performed",
              PendingOfType(running[w], queue, jobs))

\* the prune with the skip check after the loop over the stacks
prune_mirror_duplicates_then_check(skip, store, t) ==
    [store |-> PruneBody(store, t).store,
     raised |-> PruneBody(store, t).raised,
     skipped |-> skip /\ ~PruneBody(store, t).raised]

\* prune_mirror_duplicates (workers.py 512-622): the return on
\* check_skip_job (521-523), else the body
prune_mirror_duplicates(skip, store, t) ==
    IF skip
    THEN [store |-> store, raised |-> FALSE, skipped |-> TRUE]
    ELSE [store |-> PruneBody(store, t).store,
          raised |-> PruneBody(store, t).raised,
          skipped |-> FALSE]

\* a worker runs prune_mirror_duplicates as its job
RunPrune(w) ==
    /\ Executes(w, "prune_mirror_duplicates")
    /\ \E run \in {prune_mirror_duplicates(
                       check_skip_job(running[w], queue, jobs), s3, now)} :
        /\ s3' = run.store
        /\ EndJob(w,
                  IF run.raised THEN "failed" ELSE "finished",
                  IF run.skipped THEN "skipped"
                  ELSE IF run.raised THEN "raised" ELSE "performed",
                  IF run.skipped
                  THEN SameTypePending(running[w], queue, jobs) ELSE {})

\* update_mirror_index (workers.py 626-660); the index files it has spack
\* write are not among the objects of the model
RunReindex(w) ==
    /\ Executes(w, "update_mirror_index")
    /\ s3' = s3
    /\ IF check_skip_job(running[w], queue, jobs)
       THEN EndJob(w, "finished", "skipped",
                   SameTypePending(running[w], queue, jobs))
       ELSE EndJob(w, "finished", "performed", {})

\* a job's call to S3, git or spack raises before it changed anything; a
\* prune or reindex job that skips makes no such call
JobRaises(w) ==
    /\ running[w] # NoJob
    /\ Cardinality({j \in DOMAIN jobs : jobs[j].outcome = "raised"})
           < MaxRaises
    /\ jobs[running[w]].type \in GuardedTypes
           => ~check_skip_job(running[w], queue, jobs)
    /\ s3' = s3
    /\ EndJob(w, "failed", "raised", {})

\* the mirrors when the first pull request closes
QueueStore ==
    [b \in {PrsBucket, PubBucket} |->
        IF b = PrsBucket
        THEN {[key |-> k, last_modified |-> Now0 - TicksPerDay] :
                 k \in {PrKey(1, DashA, SufSpack),
                        PrKey(1, DashA, SufSpecJson),
                        PrKey(2, DashC, SufSpecJson)}}
        ELSE {[key |-> Named(PublishPrefix(2), DashA, SufSpecJson),
               last_modified |-> 0]}]

Init ==
    /\ jobs = <<>>
    /\ queue = <<>>
    /\ tasks = <<>>
    /\ running = [w \in Workers |-> NoJob]
    /\ pr_graduation \in BOOLEAN
    /\ closed = {}
    /\ s3 = QueueStore
    /\ now = Now0
    /\ prune_log = <<>>
    /\ HashIdle
    /\ PipelineIdle
    /\ RaceIdle
    /\ MirrorIdle
    /\ ServerIdle
    /\ StyleIdle

Next ==
    \/ PullRequestEvent
    \/ \E w \in Workers : Dequeue(w)
    \/ \E w \in Workers : RunCopy(w)
    \/ \E w \in Workers : RunPrune(w)
    \/ \E w \in Workers : RunReindex(w)
    \/ \E w \in Workers : RunDelete(w)
    \/ \E w \in Workers : JobRaises(w)

Spec == Init /\ [][Next]_vars

(***************************************************************************)
(* C10.  Dependency ordering.                                              *)
(***************************************************************************)
Terminal(job) == job.status \in {"finished", "failed"}

HasStarted(job) == job.status \in {"started", "finished", "failed"}

\* job c is the job of the given type that job j's close event enqueued
SameEventJob(j, c, type) ==
    jobs[c].event = jobs[j].event /\ jobs[c].type = type

\* C10: a job that has started has its dependency, if it was enqueued with
\* one, in a terminal state; and of the jobs one close event enqueued, the
\* prune has not started before the copy is terminal, the reindex not before
\* the prune is terminal, and the delete not before the copy is terminal.
C10_DependencyOrdering ==
    \A j \in DOMAIN jobs :
        HasStarted(jobs[j]) =>
            /\ jobs[j].depends_on # NoJob =>
                   Terminal(jobs[jobs[j].depends_on])
            /\ \A c \in DOMAIN jobs :
                /\ jobs[j].type = "prune" /\ SameEventJob(j, c, "copy")
                       => Terminal(jobs[c])
                /\ jobs[j].type = "reindex" /\ SameEventJob(j, c, "prune")
                       => Terminal(jobs[c])
                /\ jobs[j].type = "delete" /\ SameEventJob(j, c, "copy")
                       => Terminal(jobs[c])

\* a graduation chain has run through: its reindex and its delete started
C10_Witness ==
    \E j, d \in DOMAIN jobs :
        /\ jobs[j].type = "reindex"
        /\ HasStarted(jobs[j])
        /\ SameEventJob(j, d, "delete")
        /\ HasStarted(jobs[d])
        /\ jobs[d].depends_on # NoJob

(***************************************************************************)
(* C1.  The dedup guard.                                                   *)
(***************************************************************************)
\* jobs j and k were pending on the queue at the same time
CoPending(j, k) ==
    k \in jobs[j].pending_at_start \/ j \in jobs[k].pending_at_start

\* job j went past its skip check, into the operation
Performs(j) == jobs[j].outcome \in {"performed", "raised"}

\* two distinct prune jobs, or reindex jobs, that were pending together
DedupPair(j, k) ==
    /\ j # k
    /\ jobs[j].type = jobs[k].type
    /\ jobs[j].type \in GuardedTypes
    /\ CoPending(j, k)

\* C1 as stated: of two same-type jobs pending together, at most one goes
\* into the operation, whatever the interleaving of the workers.
C1_AtMostOnePerforms ==
    \A j, k \in DOMAIN jobs :
        DedupPair(j, k) => ~(Performs(j) /\ Performs(k))

\* C1: of two same-type jobs pending together, both go into the operation
\* only if different workers ran them; and a job that skipped had a
\* same-type job pending when it checked.
C1_DedupSkip ==
    \A j, k \in DOMAIN jobs :
        DedupPair(j, k) =>
            /\ Performs(j) /\ Performs(k) => jobs[j].worker # jobs[k].worker
            /\ jobs[j].outcome = "skipped" => jobs[j].pending_at_check # {}

\* one of two jobs pending together skipped, the other did the operation
C1_Witness ==
    \E j, k \in DOMAIN jobs :
        /\ DedupPair(j, k)
        /\ jobs[j].outcome = "skipped"
        /\ jobs[k].outcome = "performed"

(***************************************************************************)
(* urllib.parse.quote_plus, unquote_plus and urljoin on the characters of  *)
(* the model (all of them ASCII).                                          *)
(***************************************************************************)
\* the ASCII codes of the characters of CodeOrder, in the same order
CodePoints ==
    <<32, 35, 37, 43, 45, 46, 47>>
    \o [i \in 1..10 |-> 47 + i] \o <<58, 63>>
    \o [i \in 1..26 |-> 64 + i] \o <<95>>
    \o [i \in 1..26 |-> 96 + i] \o <<126>>

\* ord(c)
Ord == [c \in Range(CodeOrder) |-> CodePoints[CodeOf[c]]]

\* chr(n), for the codes of the model's characters
Chr(n) == CodeOrder[CHOOSE i \in DOMAIN CodePoints : CodePoints[i] = n]

HexDigits ==
    <<"0","1","2","3","4","5","6","7","8","9","A","B","C","D","E","F">>

\* "%{:02X}".format(byte)
PercentByte(n) == <<"%", HexDigits[(n \div 16) + 1], HexDigits[(n % 16) + 1]>>

\* the characters quote never encodes: letters, digits and "_.-~"
AlwaysSafe == Alnum \cup {"_", ".", "-", "~"}

\* the identity in place of quote_plus
quote_plus_identity(string) == string

\* urllib.parse.quote_plus(string): quote with the space kept, then every
\* space replaced by "+"
RECURSIVE quote_plus(_)
quote_plus(string) ==
    IF string = <<>> THEN <<>>
    ELSE (IF Head(string) \in AlwaysSafe THEN <<Head(string)>>
          ELSE IF Head(string) = " " THEN <<"+">>
          ELSE PercentByte(Ord[Head(string)]))
         \o quote_plus(Tail(string))

\* the value of a hexadecimal digit, either case
HexValue(c) ==
    (CHOOSE i \in DOMAIN HexDigits :
        HexDigits[i] = c \/ LowerChar(HexDigits[i]) = c) - 1

IsHexDigit(c) ==
    \E i \in DOMAIN HexDigits : HexDigits[i] = c \/ LowerChar(HexDigits[i]) = c

\* urllib.parse.unquote_plus(string): "+" is a space, %XX is a byte
RECURSIVE unquote_plus(_)
unquote_plus(string) ==
    IF string = <<>> THEN <<>>
    ELSE IF Head(string) = "+" THEN <<" ">> \o unquote_plus(Tail(string))
    ELSE IF /\ Head(string) = "%"
            /\ Len(string) >= 3
            /\ IsHexDigit(string[2])
            /\ IsHexDigit(string[3])
         THEN <<Chr(16 * HexValue(string[2]) + HexValue(string[3]))>>
              \o unquote_plus(Drop(string, 4))
         ELSE <<Head(string)>> \o unquote_plus(Tail(string))

\* helpers.spack_gitlab_url (helpers.py 27)
spack_gitlab_url ==
    <<"h","t","t","p","s",":","/","/","g","i","t","l","a","b",".",
      "s","p","a","c","k",".","i","o">>

\* helpers.gitlab_spack_project_url (helpers.py 31-33)
gitlab_spack_project_url ==
    spack_gitlab_url
    \o <<"/","a","p","i","/","v","4","/","p","r","o","j","e","c","t","s","/","2">>

\* urllib.parse.urljoin(base, url) for a base without a path and a url that
\* has no scheme and no dot segments: a network-path reference keeps the
\* base's scheme, an absolute path the scheme and host, a relative path goes
\* under the root
urljoin(base, url) ==
    IF url = <<>> THEN base
    ELSE IF StartsWith(url, <<"/", "/">>)
         THEN urlparse(base).scheme \o <<":">> \o url
         ELSE IF Head(url) = "/" THEN base \o url
              ELSE base \o <<"/">> \o url

(***************************************************************************)
(* run_pipeline_task (workers.py 135-251), from the await of one request   *)
(* to the next.  A JSON object is a function from its keys to its values.  *)
(***************************************************************************)
\* a request not made yet
Unset == [unset |-> TRUE]

\* the empty JSON object, and the default of result.get(..., {})
EmptyDict == [k \in {} |-> TRUE]

\* the PR's current head, and the commit before it
HeadSha == <<"f","0","0","d","1">>

OldSha == <<"0","1","d","e","r">>

\* pr_url.split("/")[-1] of the requests of the model
PipelineNumbers == { <<"4","8","2">>, <<"7">> }

\* pr["head"]["ref"]
PipelineBranches ==
    { <<"f","e","a","t","u","r","e","-","x">>,
      <<"u","s","e","r","/","f","i","x","+","1">>,
      <<"f","i","x","#","7">> }

\* pr["user"]["login"], and the logins a request can come from
Author == "alice"

Senders == {"alice", "bob"}

\* what GitLab answers for a commit: nothing, an error, or a commit with
\* its parents
GitlabCommits ==
    { EmptyDict, [message |-> "404 Commit Not Found"] }
    \cup { [id |-> "c0ffee", parent_ids |-> p] :
              p \in { <<>>, <<OldSha>>, <<HeadSha>>, <<OldSha, HeadSha>> } }

DetailsPaths ==
    { <<"/","s","p","a","c","k","/","-","/","p","i","p","e","l","i","n","e","s","/","5">>,
      <<"p","i","p","e","l","i","n","e","s","/","6">> }

\* what GitLab answers when asked to create a pipeline
TriggerResults ==
    { EmptyDict,
      [message |-> "400 Bad Request"],
      [id |-> 5, detailed_status |-> [text |-> "created"]] }
    \cup { [id |-> 5, detailed_status |-> [details_path |-> p]] :
              p \in DetailsPaths }

\* f"pr{number}_{branch}" (191)
pr_mirror_key(number, head_ref) == <<"p", "r">> \o number \o <<"_">> \o head_ref

\* f"{helpers.gitlab_spack_project_url}/repository/commits/{branch_name}" (76)
commit_url(branch_name) ==
    gitlab_spack_project_url
    \o <<"/","r","e","p","o","s","i","t","o","r","y","/","c","o","m","m","i","t","s","/">>
    \o branch_name

RebuildVariables ==
    <<"&","v","a","r","i","a","b","l","e","s">>

\* the trigger URL (200-219); the variables of a rebuild are abbreviated
pipeline_url(branch, rebuild_everything) ==
    gitlab_spack_project_url
    \o <<"/","p","i","p","e","l","i","n","e","?","r","e","f","=">>
    \o branch
    \o (IF rebuild_everything THEN RebuildVariables ELSE <<>>)

\* the test of check_gitlab_has_latest (81, 90)
gitlab_has_latest_always(gitlab_commit, pr_head_sha) == TRUE

gitlab_has_latest(gitlab_commit, pr_head_sha) ==
    /\ DOMAIN gitlab_commit # {}
    /\ "parent_ids" \in DOMAIN gitlab_commit
    /\ pr_head_sha \in Range(gitlab_commit.parent_ids)

\* what GitHub answers to gh.getitem(collaborators_url, {"collaborator":
\* sender}): the status, and the body gidgethub hands back ("" for none)
NoResponse == [status |-> 0, body |-> ""]

CollaboratorResponses ==
    { [status |-> 200, body |-> "user"],
      [status |-> 204, body |-> ""],
      [status |-> 404, body |-> "Not Found"],
      [status |-> 403, body |-> "Forbidden"],
      [status |-> 500, body |-> "Server Error"] }

\* the statuses for which gh.getitem returns instead of raising
\* gidgethub.HTTPException
SuccessStatuses == {200, 204}

\* helpers.found turning every HTTPException into None
helpers_found_swallowing(response) ==
    IF response.status \in SuccessStatuses
    THEN [raised |-> FALSE,
          value |-> IF response.body # "" THEN response.body ELSE "True"]
    ELSE [raised |-> FALSE, value |-> "None"]

\* helpers.found (helpers.py 169-182): `result or True` of the awaited
\* request, None for an HTTPException with status 404, and any other
\* exception raised again
helpers_found(response) ==
    IF response.status \in SuccessStatuses
    THEN [raised |-> FALSE,
          value |-> IF response.body # "" THEN response.body ELSE "True"]
    ELSE IF response.status = 404
    THEN [raised |-> FALSE, value |-> "None"]
    ELSE [raised |-> TRUE, value |-> "None"]

\* how the lookup went for the task: it raised, it gave None, or it gave
\* something truthy
lookup_of(response) ==
    IF helpers_found(response).raised THEN "error"
    ELSE IF helpers_found(response).value = "None" THEN "404"
    ELSE "found"

\* helpers.found answering as if the collaborator were on record
found_always(lookup) == TRUE

\* helpers.found answering as if nobody were on record
found_never(lookup) == FALSE

\* helpers.found (helpers.py 169-182) on a lookup that did not raise
\* anything but a 404
found(lookup) == lookup # "404"

\* result.get("detailed_status", {}) (239)
detailed_status_of(result) ==
    IF "detailed_status" \in DOMAIN result THEN result.detailed_status
    ELSE EmptyDict

\* the comment after the trigger, always the generic one
trigger_comment_generic(result) == [kind |-> "problem"]

\* the comment after the trigger (239-251)
trigger_comment(result) ==
    IF "details_path" \in DOMAIN detailed_status_of(result)
    THEN [kind |-> "started",
          url |-> urljoin(spack_gitlab_url,
                          detailed_status_of(result).details_path)]
    ELSE [kind |-> "problem"]

\* the PR mirrors when the request comes in
PipelineStore ==
    [b \in {PrsBucket, PubBucket} |->
        IF b = PrsBucket
        THEN {[key |-> k \o <<"/">> \o Stacks[2] \o <<"/", "x">> \o DashA
                          \o SufSpack,
               last_modified |-> 0] :
                 k \in {pr_mirror_key(n, r) :
                           n \in PipelineNumbers, r \in PipelineBranches}}
        ELSE {}]

InitPipeline ==
    /\ \E token \in BOOLEAN, sender \in Senders, number \in PipelineNumbers,
          head_ref \in PipelineBranches, rebuild \in BOOLEAN :
        pipeline = [pc |-> "start",
                    GITLAB_TOKEN |-> token,
                    sender |-> sender,
                    number |-> number,
                    head_ref |-> head_ref,
                    rebuild_everything |-> rebuild,
                    response |-> NoResponse,
                    lookup |-> "none",
                    branch |-> Unset,
                    gitlab_commit |-> Unset,
                    result |-> Unset,
                    comments |-> <<>>,
                    requests |-> <<>>,
                    purged |-> <<>>]
    /\ s3 = PipelineStore
    /\ now = 0
    /\ prune_log = <<>>
    /\ HashIdle
    /\ QueueIdle
    /\ StyleIdle
    /\ RaceIdle
    /\ MirrorIdle
    /\ ServerIdle

\* the comment followed by an exception instead of the return
PostAndRaise(comment) ==
    pipeline' = [pipeline EXCEPT !.pc = "raised",
                                 !.comments = Append(@, comment)]

\* gh.post(comments_url, {}, data={"body": msg}), and the return after it
PostAndReturn(comment) ==
    pipeline' = [pipeline EXCEPT !.pc = "returned",
                                 !.comments = Append(@, comment)]

\* an exception leaves the task
PipelineRaise == pipeline' = [pipeline EXCEPT !.pc = "raised"]

\* 146-166: the token check and the fetch of the pull request
PipelineStart ==
    /\ pipeline.pc = "start"
    /\ IF ~pipeline.GITLAB_TOKEN
       THEN PostAndReturn([kind |-> "no_authentication"])
       ELSE \E fetched \in BOOLEAN :
                IF fetched
                THEN pipeline' = [pipeline EXCEPT !.pc = "authorize"]
                ELSE PipelineRaise
    /\ UNCHANGED <<hvars, svars, s3vars, qvars, style, race, mirror_log>>

\* 168-187: the author may, and so may a collaborator on record
PipelineAuthorize ==
    /\ pipeline.pc = "authorize"
    /\ IF Author = pipeline.sender
       THEN pipeline' = [pipeline EXCEPT !.pc = "check_latest"]
       ELSE \E response \in CollaboratorResponses :
            \E lookup \in {lookup_of(response)} :
                IF lookup = "error"
                THEN pipeline' = [pipeline EXCEPT !.pc = "raised",
                                                  !.response = response,
                                                  !.lookup = lookup]
                ELSE IF found(lookup)
                     THEN pipeline' = [pipeline EXCEPT !.pc = "check_latest",
                                                       !.response = response,
                                                       !.lookup = lookup]
                     ELSE pipeline' =
                              [pipeline EXCEPT
                                  !.pc = "returned",
                                  !.response = response,
                                  !.lookup = lookup,
                                  !.comments = Append(@,
                                      [kind |-> "permission_denied",
                                       sender |-> pipeline.sender])]
    /\ UNCHANGED <<hvars, svars, s3vars, qvars, style, race, mirror_log>>

\* 189-198 and check_gitlab_has_latest (59-98): the ref, the commit GitLab
\* has for it, and the comment if that commit is not a child of the PR head
PipelineCheckLatest ==
    /\ pipeline.pc = "check_latest"
    /\ \E branch \in
           {quote_plus(pr_mirror_key(pipeline.number, pipeline.head_ref))},
          gitlab_commit \in GitlabCommits \cup {Unset} :
        IF gitlab_commit = Unset
        THEN pipeline' =
                 [pipeline EXCEPT
                     !.pc = "raised",
                     !.branch = branch,
                     !.requests = Append(@, [method |-> "GET",
                                             url |-> commit_url(branch)])]
        ELSE pipeline' =
                 [pipeline EXCEPT
                     !.pc = IF gitlab_has_latest(gitlab_commit, HeadSha)
                            THEN "trigger" ELSE "returned",
                     !.branch = branch,
                     !.gitlab_commit = gitlab_commit,
                     !.requests = Append(@, [method |-> "GET",
                                             url |-> commit_url(branch)]),
                     !.comments =
                         IF gitlab_has_latest(gitlab_commit, HeadSha)
                         THEN @
                         ELSE Append(@, [kind |-> "cannot_run_pipeline"])]
    /\ UNCHANGED <<hvars, svars, s3vars, qvars, style, race, mirror_log>>

\* the prefix the rebuild wipes (225-231)
purge_prefix(number, head_ref) ==
    s3_parse_url(pr_mirror_base_url \o <<"/">>
                 \o pr_mirror_key(number, head_ref))

\* the purge made for every pipeline
purges_always(rebuild_everything) == TRUE

\* `if rebuild_everything:` (202), the block that holds the purge
purges(rebuild_everything) == rebuild_everything

\* 200-237: the purge of the PR mirror for a rebuild, then the trigger
PipelineTrigger ==
    /\ pipeline.pc = "trigger"
    /\ s3' = IF purges(pipeline.rebuild_everything)
             THEN delete_pr_mirror(
                      s3, purge_prefix(pipeline.number, pipeline.head_ref))
             ELSE s3
    /\ \E result \in TriggerResults \cup {Unset} :
        pipeline' =
            [pipeline EXCEPT
                !.pc = IF result = Unset THEN "raised" ELSE "report",
                !.result = result,
                !.purged =
                    IF purges(pipeline.rebuild_everything)
                    THEN Append(@, purge_prefix(pipeline.number,
                                                pipeline.head_ref).prefix)
                    ELSE @,
                !.requests =
                    Append(@, [method |-> "POST",
                               url |-> pipeline_url(
                                           pipeline.branch,
                                           pipeline.rebuild_everything)])]
    /\ UNCHANGED <<now, prune_log>>
    /\ UNCHANGED <<hvars, svars, qvars, style, race, mirror_log>>

\* the trigger request sent although the purge raised
PipelinePurgeRaises_after_post ==
    /\ pipeline.pc = "trigger"
    /\ purges(pipeline.rebuild_everything)
    /\ s3' = s3
    /\ pipeline' =
           [pipeline EXCEPT
               !.pc = "raised",
               !.requests =
                   Append(@, [method |-> "POST",
                              url |-> pipeline_url(
                                          pipeline.branch,
                                          pipeline.rebuild_everything)])]
    /\ UNCHANGED <<now, prune_log>>
    /\ UNCHANGED <<hvars, svars, qvars, style, race, mirror_log>>

\* 224-231: the purge of a rebuild raises (boto3, before an object is gone);
\* the exception leaves the task at that line, before the request of 237
PipelinePurgeRaises ==
    /\ pipeline.pc = "trigger"
    /\ purges(pipeline.rebuild_everything)
    /\ s3' = s3
    /\ PipelineRaise
    /\ UNCHANGED <<now, prune_log>>
    /\ UNCHANGED <<hvars, svars, qvars, style, race, mirror_log>>

\* 239-251: the comment on what the trigger answered
PipelineReport ==
    /\ pipeline.pc = "report"
    /\ PostAndReturn(trigger_comment(pipeline.result))
    /\ UNCHANGED <<hvars, svars, s3vars, qvars, style, race, mirror_log>>

\* report_pipeline_failure (125-132), the job's on_failure hook
PipelineFailureHook ==
    /\ pipeline.pc = "raised"
    /\ pipeline' = [pipeline EXCEPT !.pc = "failed",
                                    !.comments = Append(@, [kind |-> "error"])]
    /\ UNCHANGED <<hvars, svars, s3vars, qvars, style, race, mirror_log>>

NextPipeline ==
    \/ PipelineStart
    \/ PipelineAuthorize
    \/ PipelineCheckLatest
    \/ PipelineTrigger
    \/ PipelinePurgeRaises
    \/ PipelineReport
    \/ PipelineFailureHook

SpecPipeline == InitPipeline /\ [][NextPipeline]_vars

(***************************************************************************)
(* C5.  An unauthorized requester.                                         *)
(***************************************************************************)
PermissionDenied(sender) == [kind |-> "permission_denied", sender |-> sender]

\* C5: when the requester is not the PR author and the collaborator lookup
\* answered 404, the task has returned (it has not raised, and the failure
\* hook has posted nothing), its one comment is the permission-denied
\* comment, it has sent no request to GitLab and purged nothing.
C5_UnauthorizedRefused ==
    (pipeline.sender # Author /\ pipeline.lookup = "404") =>
        /\ pipeline.pc = "returned"
        /\ pipeline.comments = <<PermissionDenied(pipeline.sender)>>
        /\ pipeline.requests = <<>>
        /\ pipeline.purged = <<>>
        /\ s3 = PipelineStore

\* a requester who is not the author was looked up and not found
C5_Witness ==
    /\ pipeline.pc = "returned"
    /\ pipeline.sender # Author
    /\ pipeline.lookup = "404"
    /\ pipeline.GITLAB_TOKEN

(***************************************************************************)
(* C6.  GitLab does not have the PR's head yet.                            *)
(***************************************************************************)
\* the commit GitLab answered lists the PR's head among its parents
ListsHead(commit) ==
    /\ "parent_ids" \in DOMAIN commit
    /\ HeadSha \in Range(commit.parent_ids)

\* the task has asked GitLab to create a pipeline
Triggered == \E i \in DOMAIN pipeline.requests :
                 pipeline.requests[i].method = "POST"

\* C6: when the commit GitLab answered does not list the PR's head among
\* its parents, or has no parent list, the task has returned with the
\* cannot-run-pipeline comment, without trigger request and without purge;
\* and a trigger request, or a purge, is only ever found after a commit
\* query that was answered with a commit listing the PR's head.
C6_StaleNeverTriggers ==
    /\ (pipeline.gitlab_commit # Unset /\ ~ListsHead(pipeline.gitlab_commit))
           => /\ pipeline.pc = "returned"
              /\ pipeline.comments = <<[kind |-> "cannot_run_pipeline"]>>
              /\ ~Triggered
              /\ pipeline.purged = <<>>
              /\ s3 = PipelineStore
    /\ (Triggered \/ pipeline.purged # <<>> \/ s3 # PipelineStore)
           => /\ ListsHead(pipeline.gitlab_commit)
              /\ pipeline.requests[1] =
                     [method |-> "GET", url |-> commit_url(pipeline.branch)]
              /\ \A i \in DOMAIN pipeline.requests :
                     pipeline.requests[i].method = "POST" => i > 1

\* GitLab answered with a commit whose only parent is an older commit
C6_Witness ==
    /\ pipeline.pc = "returned"
    /\ pipeline.gitlab_commit # Unset
    /\ "parent_ids" \in DOMAIN pipeline.gitlab_commit
    /\ pipeline.gitlab_commit.parent_ids = <<OldSha>>

(***************************************************************************)
(* C7.  The ref on GitLab.                                                 *)
(***************************************************************************)
Number482 == <<"4","8","2">>

HasDetailsPath(result) ==
    /\ "detailed_status" \in DOMAIN result
    /\ "details_path" \in DOMAIN result.detailed_status

Contains(s, sub) ==
    \E i \in 1..(Len(s) - Len(sub) + 1) : SubSeq(s, i, i + Len(sub) - 1) = sub

\* is_up_to_date of handlers/style.py (57-61)
is_up_to_date_branch(output) ==
    Contains(output, <<"b","r","a","n","c","h"," ","i","s"," ","u","p"," ","t","o"," ","d",
              "a","t","e">>)

\* is_up_to_date (workers.py 52-56)
is_up_to_date(output) ==
    Contains(output, <<"n","o","t","h","i","n","g"," ","t","o"," ","c","o","m","m","i","t">>)

\* what git commit -a prints: a commit, a clean tree, or a tree in which the
\* only changes are untracked files
CommitCreated ==
    <<"[","s","p","a","c","k","b","o","t","-","s","t","y","l","e","-","c",
      "h","e","c","k","-","w","o","r","k","i","n","g","-","b","r","a","n",
      "c","h"," ","1","a","2","b","3","c","4","]"," ","u","p","d","a","t",
      "i","n","g"," ","s","t","y","l","e">>

CommitClean ==
    <<"n","o","t","h","i","n","g"," ","t","o"," ","c","o","m","m","i","t",
      ","," ","w","o","r","k","i","n","g"," ","t","r","e","e"," ","c","l",
      "e","a","n">>

CommitUntracked ==
    <<"n","o","t","h","i","n","g"," ","a","d","d","e","d"," ","t","o"," ",
      "c","o","m","m","i","t"," ","b","u","t"," ","u","n","t","r","a","c",
      "k","e","d"," ","f","i","l","e","s"," ","p","r","e","s","e","n","t">>

\* what spack style --fix prints
StyleOutputs ==
    { <<"s","p","a","c","k"," ","s","t","y","l","e"," ","c","h","e","c","k",
        "s"," ","w","e","r","e"," ","c","l","e","a","n">>,
      <<"E","5","0","1"," ","l","i","n","e"," ","t","o","o"," ","l","o","n",
        "g">> }

\* pr["head"]["ref"]
StyleBranches ==
    { <<"f","e","a","t","u","r","e","-","x">>,
      <<"f","i","x","/","s","t","y","l","e">> }

local_branch ==
    <<"s","p","a","c","k","b","o","t","-","s","t","y","l","e","-","c","h",
      "e","c","k","-","w","o","r","k","i","n","g","-","b","r","a","n","c",
      "h">>

\* comments.get_style_message (comments.py 43-60): the output, cut short
\* when it is too long for a comment
get_style_message(output) ==
    IF Len(output) >= 64700
    THEN SubSeq(output, 1, 64682) \o <<"\n",".",".","."," ","t","r","u","n","c","a","t","e","d"," ",".",".",".">>
    ELSE output

\* the directory the worker process runs in
WorkerDir == "worker"

\* helpers.temp_dir (helpers.py 120-131), entering: the directory is made,
\* the current directory is kept in pwd, and the process changes into it
temp_dir_enter(fs) ==
    [fs EXCEPT !.pwd = fs.cwd, !.tmp_exists = TRUE, !.cwd = "tmp"]

\* os.chdir("spack") (workers.py 325)
chdir_spack(fs) == [fs EXCEPT !.cwd = "tmp/spack"]

\* temp_dir with the os.chdir(pwd) after the yield, not in a finally
temp_dir_exit_no_finally(fs, exception) ==
    [fs EXCEPT !.cwd = IF exception THEN @ ELSE fs.pwd,
               !.tmp_exists = FALSE]

\* helpers.temp_dir, leaving, by return or by exception: the finally
\* changes back to pwd (130-131), then TemporaryDirectory removes the
\* directory (126)
temp_dir_exit(fs, exception) ==
    [fs EXCEPT !.cwd = fs.pwd, !.tmp_exists = FALSE]

InitStyle ==
    /\ \E sender \in Senders, remote_branch \in StyleBranches :
        style = [pc |-> "start",
                 sender |-> sender,
                 remote_branch |-> remote_branch,
                 response |-> NoResponse,
                 lookup |-> "none",
                 fs |-> [cwd |-> WorkerDir, pwd |-> "none",
                         tmp_exists |-> FALSE],
                 cloned |-> FALSE,
                 message |-> <<>>,
                 commit_output |-> <<>>,
                 comments |-> <<>>,
                 pushes |-> <<>>]
    /\ S3Idle
    /\ HashIdle
    /\ QueueIdle
    /\ PipelineIdle
    /\ RaceIdle
    /\ MirrorIdle
    /\ ServerIdle

\* 260-293: the fetch of the pull request, the permission check, and the
\* comment that the fix is on its way
StyleStart ==
    /\ style.pc = "start"
    /\ \E fetched \in BOOLEAN,
          response \in IF style.sender # Author
                       THEN CollaboratorResponses ELSE {NoResponse} :
        \E lookup \in IF style.sender # Author
                       THEN {lookup_of(response)} ELSE {"none"} :
        IF ~fetched
        THEN style' = [style EXCEPT !.pc = "raised"]
        ELSE IF lookup = "error"
        THEN style' = [style EXCEPT !.pc = "raised",
                                    !.response = response,
                                    !.lookup = lookup]
        ELSE IF style.sender # Author /\ ~found(lookup)
        THEN style' = [style EXCEPT
                          !.pc = "returned",
                          !.response = response,
                          !.lookup = lookup,
                          !.comments = Append(@,
                              [kind |-> "permission_denied",
                               sender |-> style.sender])]
        ELSE style' = [style EXCEPT
                          !.pc = "prepare",
                          !.response = response,
                          !.lookup = lookup,
                          !.comments = Append(@, [kind |-> "on_my_way"])]
    /\ UNCHANGED <<hvars, svars, s3vars, qvars, pipeline, race, mirror_log>>

\* 295-340: the committer's email, then, inside temp_dir, the clones, the
\* change into the clone, the fetch and the checkout of the PR branch; any
\* of them can raise
StylePrepare ==
    /\ style.pc = "prepare"
    /\ \E raises \in {"get_user_email", "clone", "fetch", "none"} :
        style' = [style EXCEPT
                     !.pc = IF raises = "none" THEN "style" ELSE "raised",
                     !.cloned = raises # "get_user_email",
                     !.fs = IF raises = "get_user_email" THEN @
                            ELSE IF raises = "clone"
                            THEN temp_dir_exit(temp_dir_enter(@), TRUE)
                            ELSE IF raises = "fetch"
                            THEN temp_dir_exit(
                                     chdir_spack(temp_dir_enter(@)), TRUE)
                            ELSE chdir_spack(temp_dir_enter(@))]
    /\ UNCHANGED <<hvars, svars, s3vars, qvars, pipeline, race, mirror_log>>

\* 342-352: spack style --fix; exit codes 0 and 1 are accepted
StyleRun ==
    /\ style.pc = "style"
    /\ \E ok \in BOOLEAN, res \in StyleOutputs :
        style' = [style EXCEPT
                     !.pc = IF ok THEN "commit" ELSE "raised",
                     !.fs = IF ok THEN @ ELSE temp_dir_exit(@, TRUE),
                     !.message = IF ok THEN get_style_message(res) ELSE @]
    /\ UNCHANGED <<hvars, svars, s3vars, qvars, pipeline, race, mirror_log>>

\* 354-374: the commit, and the comment and return when there was nothing
\* to commit
StyleCommit ==
    /\ style.pc = "commit"
    /\ \E ok \in BOOLEAN,
          res \in {CommitCreated, CommitClean, CommitUntracked} :
        IF ~ok
        THEN style' = [style EXCEPT !.pc = "raised",
                                    !.fs = temp_dir_exit(@, TRUE)]
        ELSE IF is_up_to_date(res)
        THEN style' = [style EXCEPT
                          !.pc = "returned",
                          !.fs = temp_dir_exit(@, FALSE),
                          !.commit_output = res,
                          !.comments = Append(@,
                              [kind |-> "style",
                               message |-> style.message,
                               then |-> "no_further_changes"])]
        ELSE style' = [style EXCEPT !.pc = "push", !.commit_output = res]
    /\ UNCHANGED <<hvars, svars, s3vars, qvars, pipeline, race, mirror_log>>

\* the push with the last comment left out when the push raised
StylePush_quiet_on_failure ==
    /\ style.pc = "push"
    /\ \E exit_code \in {0, 1, 128} :
        style' = [style EXCEPT
                     !.pc = "returned",
                     !.fs = temp_dir_exit(@, FALSE),
                     !.pushes = Append(@,
                         [refspec |-> local_branch \o <<":">>
                                      \o style.remote_branch,
                          exit_code |-> exit_code]),
                     !.comments =
                         IF exit_code \in {0, 1}
                         THEN Append(@, [kind |-> "style",
                                         message |-> style.message,
                                         then |-> "updated"])
                         ELSE @]
    /\ UNCHANGED <<hvars, svars, s3vars, qvars, pipeline, race, mirror_log>>

\* 374-391: the push, whose exception is caught, and the last comment; an
\* exit code of 1 is accepted by run_command and raises nothing
StylePush ==
    /\ style.pc = "push"
    /\ \E exit_code \in {0, 1, 128} :
        style' = [style EXCEPT
                     !.pc = "returned",
                     !.fs = temp_dir_exit(@, FALSE),
                     !.pushes = Append(@,
                         [refspec |-> local_branch \o <<":">>
                                      \o style.remote_branch,
                          exit_code |-> exit_code]),
                     !.comments = Append(@,
                         [kind |-> "style",
                          message |-> style.message,
                          then |-> IF exit_code \in {0, 1}
                                   THEN "updated"
                                   ELSE "updated_but_not_pushed"])]
    /\ UNCHANGED <<hvars, svars, s3vars, qvars, pipeline, race, mirror_log>>

NextStyle ==
    \/ StyleStart
    \/ StylePrepare
    \/ StyleRun
    \/ StyleCommit
    \/ StylePush

SpecStyle == InitStyle /\ [][NextStyle]_vars

(***************************************************************************)
(* C9.  The style fix that changes nothing.                                *)
(***************************************************************************)
NothingToCommit ==
    Contains(style.commit_output, <<"n","o","t","h","i","n","g"," ","t","o"," ","c","o","m","m","i","t">>)

\* C9: when the commit reported "nothing to commit", the task has returned
\* (it has not raised), has pushed nothing, and has posted exactly one
\* comment saying that it could make no further changes (after the comment
\* that the fix was on its way).
C9_NoDiffNoPush ==
    NothingToCommit =>
        /\ style.pc = "returned"
        /\ style.pushes = <<>>
        /\ Cardinality({i \in DOMAIN style.comments :
               /\ style.comments[i].kind = "style"
               /\ style.comments[i].then = "no_further_changes"}) = 1
        /\ Len(style.comments) = 2
        /\ style.comments[1] = [kind |-> "on_my_way"]

\* the commit found a clean tree
C9_Witness ==
    /\ style.pc = "returned"
    /\ style.commit_output = CommitClean

(***************************************************************************)
(* The two queues as the handlers fill them: close_pr_mirror with the      *)
(* graduation branch switched off, as mirrors.py 55 has it, and the        *)
(* pipeline commands of handlers/gitlab.py.  The task of a pipeline job is *)
(* followed step by step under SpecPipeline; here it returns, raises or    *)
(* runs out of time.                                                       *)
(***************************************************************************)
\* the most pipeline commands in one behaviour
MaxCommands == 1

\* the most jobs that run past their timeout in one behaviour
MaxTimeouts == 1

\* the worker of the queue tasks
ShortWorkers == {NumWorkers + 1}

\* kwargs["token"]: the installation token the command came with
Tokens == {"token-1", "token-2"}

\* event.data["issue"]["comments_url"] of a command on pull request n
comments_url(n) == <<"issues", n, "comments">>

\* job_metadata of run_pipeline (gitlab.py 45-48) and of
\* run_pipeline_rebuild_all (24-28)
pipeline_job_metadata(rebuild_everything, issue, token) ==
    IF rebuild_everything
    THEN [post_comments_url |-> comments_url(issue),
          rebuild_everything |-> TRUE,
          token |-> token]
    ELSE [post_comments_url |-> comments_url(issue),
          token |-> token]

\* a pipeline job enqueued without job_timeout: "If we don't provide a
\* timeout, the default in RQ is 180 seconds" (workers.py 33)
default_job_timeout(rebuild_everything) == 180

\* job_timeout=WORKER_JOB_TIMEOUT (gitlab.py 34, 54)
pipeline_job_timeout(rebuild_everything) == WORKER_JOB_TIMEOUT

\* on_failure=report_pipeline_failure (gitlab.py 36, 56)
pipeline_on_failure(rebuild_everything) == "report_pipeline_failure"

\* task_q.enqueue of run_pipeline_rebuild_all (gitlab.py 30-37) and of
\* run_pipeline (50-57); issue_comment deliveries are numbered below zero
PipelineJob(n, rebuild_everything, issue, token) ==
    Enqueued("run_pipeline_task", TASK_QUEUE_SHORT,
             pipeline_job_metadata(rebuild_everything, issue, token),
             pipeline_job_timeout(rebuild_everything),
             pipeline_on_failure(rebuild_everything),
             0 - (n + 1), NoJob)

\* one of the two pipeline commands arrives
PipelineCommand ==
    /\ Cardinality({j \in DOMAIN jobs : jobs[j].func = "run_pipeline_task"})
           < MaxCommands
    /\ \E rebuild_everything \in BOOLEAN, issue \in PRs, token \in Tokens :
        /\ jobs' = Append(jobs, PipelineJob(Len(jobs), rebuild_everything,
                                            issue, token))
        /\ tasks' = Append(tasks, Len(jobs) + 1)
    /\ UNCHANGED <<queue, running, pr_graduation, closed>>
    /\ UNCHANGED <<hvars, svars, s3vars, pipeline, style, race, mirror_log>>

\* the worker of tasks takes the oldest pending job and starts it
DequeueShort(w) ==
    /\ running[w] = NoJob
    /\ tasks # <<>>
    /\ running' = [running EXCEPT ![w] = Head(tasks)]
    /\ tasks' = Tail(tasks)
    /\ jobs' = [jobs EXCEPT ![Head(tasks)].status = "started",
                            ![Head(tasks)].starts = @ + 1]
    /\ UNCHANGED <<queue, pr_graduation, closed>>
    /\ UNCHANGED <<hvars, svars, s3vars, pipeline, style, race, mirror_log>>

\* run_pipeline_task returns
RunPipelineTask(w) ==
    /\ Executes(w, "run_pipeline_task")
    /\ s3' = s3
    /\ EndJob(w, "finished", "performed", {})

\* a job runs longer than its job_timeout: the worker raises
\* JobTimeoutException in it, and the job ends as one whose task raised
JobTimesOut(w) ==
    /\ running[w] # NoJob
    /\ Cardinality({j \in DOMAIN jobs : jobs[j].outcome = "timeout"})
           < MaxTimeouts
    /\ s3' = s3
    /\ EndJob(w, "failed", "timeout", {})

InitJobs ==
    /\ jobs = <<>>
    /\ queue = <<>>
    /\ tasks = <<>>
    /\ running = [w \in Workers \cup ShortWorkers |-> NoJob]
    /\ pr_graduation = FALSE
    /\ closed = {}
    /\ s3 = QueueStore
    /\ now = Now0
    /\ prune_log = <<>>
    /\ HashIdle
    /\ PipelineIdle
    /\ RaceIdle
    /\ MirrorIdle
    /\ ServerIdle
    /\ StyleIdle

NextJobs ==
    \/ PullRequestEvent
    \/ PipelineCommand
    \/ \E w \in Workers : Dequeue(w)
    \/ \E w \in ShortWorkers : DequeueShort(w)
    \/ \E w \in Workers : RunDelete(w)
    \/ \E w \in ShortWorkers : RunPipelineTask(w)
    \/ \E w \in Workers \cup ShortWorkers : JobRaises(w)
    \/ \E w \in Workers \cup ShortWorkers : JobTimesOut(w)

SpecJobs == InitJobs /\ [][NextJobs]_vars

Holders(j) ==
    {<<"tasks_long", i>> : i \in {i \in DOMAIN queue : queue[i] = j}}
    \cup {<<"tasks", i>> : i \in {i \in DOMAIN tasks : tasks[i] = j}}
    \cup {<<"worker", w>> : w \in {w \in DOMAIN running : running[w] = j}}

\* C12: every job is started at most once and is at no time pending or
\* running in more than one place; a job that has not started, or has
\* ended, is with no worker; and a job that has failed, by an exception or
\* by its timeout, stays failed and is not started again.
C12_AtMostOnce ==
    /\ [](\A j \in DOMAIN jobs :
            /\ jobs[j].starts <= 1
            /\ Cardinality(Holders(j)) <= 1
            /\ jobs[j].status \in {"finished", "failed"}
                   => Holders(j) = {} /\ jobs[j].starts = 1
            /\ jobs[j].status = "started"
                   => \E w \in DOMAIN running : running[w] = j)
    /\ [][\A j \in DOMAIN jobs :
            jobs[j].status = "failed"
                => /\ jobs'[j].status = "failed"
                   /\ jobs'[j].starts = jobs[j].starts]_vars

\* a delete job has raised and a pipeline job has run out of time, and
\* there is nothing left to do
C12_Witness ==
    /\ \E j, k \in DOMAIN jobs :
        /\ jobs[j].status = "failed" /\ jobs[j].outcome = "raised"
        /\ jobs[j].func = "delete_pr_mirror"
        /\ jobs[k].status = "failed" /\ jobs[k].outcome = "timeout"
        /\ jobs[k].func = "run_pipeline_task"
    /\ queue = <<>>
    /\ tasks = <<>>
    /\ \A w \in DOMAIN running : running[w] = NoJob

(***************************************************************************)
(* C13.  The failure hook.                                                 *)
(***************************************************************************)
\* C13: a job enqueued with an on_failure hook has, once its task raised,
\* exactly one request of the hook: an error comment sent through
\* synchronous_http_request to the post_comments_url of the job's own
\* metadata with the token of that metadata as bearer; and no such request
\* while it has not failed.
C13_FailureHook ==
    \A j \in DOMAIN jobs :
        jobs[j].on_failure # "none" =>
            IF jobs[j].status = "failed"
            THEN /\ Len(jobs[j].failure_requests) = 1
                 /\ jobs[j].failure_requests[1].via
                        = "synchronous_http_request"
                 /\ jobs[j].failure_requests[1].url
                        = jobs[j].meta.post_comments_url
                 /\ jobs[j].failure_requests[1].authorization
                        = <<"Bearer", jobs[j].meta.token>>
                 /\ jobs[j].failure_requests[1].body.kind = "error"
            ELSE jobs[j].failure_requests = <<>>

\* the task of a pipeline job has raised
C13_Witness ==
    \E j \in DOMAIN jobs :
        /\ jobs[j].on_failure = "report_pipeline_failure"
        /\ jobs[j].status = "failed"
        /\ jobs[j].outcome = "raised"

(***************************************************************************)
(* C14.  Failures the user sees.                                           *)
(***************************************************************************)
\* C14 as stated: every job that has ended in failure, of whatever type,
\* has had an error comment posted.
C14_EveryFailureCommented ==
    \A j \in DOMAIN jobs :
        jobs[j].status = "failed" => jobs[j].failure_requests # <<>>

(***************************************************************************)
(* C15.  Timeouts.                                                         *)
(***************************************************************************)
\* requests of a failure hook, whatever the exception was
HookRequests(requests) ==
    [i \in DOMAIN requests |->
        [requests[i] EXCEPT !.body.exception = "any"]]

\* C15: every job carries the timeout its handler passes, six hours, not
\* the queue's default; and a job that ran past it has failed, with the
\* requests of its failure hook those the hook makes for that job when its
\* task raises.
C15_Timeout ==
    \A j \in DOMAIN jobs :
        /\ jobs[j].job_timeout = 6 * 60 * 60
        /\ jobs[j].outcome = "timeout" =>
            /\ jobs[j].status = "failed"
            /\ HookRequests(jobs[j].failure_requests)
                   = HookRequests(failure_hook(jobs[j], "raised"))
            /\ Len(jobs[j].failure_requests)
                   = IF jobs[j].on_failure = "none" THEN 0 ELSE 1

\* a pipeline job has run past its timeout
C15_Witness ==
    \E j \in DOMAIN jobs :
        /\ jobs[j].outcome = "timeout"
        /\ jobs[j].func = "run_pipeline_task"
        /\ jobs[j].failure_requests # <<>>

(***************************************************************************)
(* C17.  What a closed pull request enqueues.                              *)
(***************************************************************************)
\* the jobs of close_pr_mirror in the job table js
MirrorJobs(js) == {j \in DOMAIN js : js[j].origin = TASK_QUEUE_LONG}

\* C17: a step that handles the closing of a pull request adds exactly one
\* job, a delete of that pull request's mirror, pending on tasks_long and
\* without dependency; and no other step adds a job to tasks_long.
C17_CloseEnqueuesDelete ==
    [][/\ closed' # closed =>
           /\ Len(jobs') = Len(jobs) + 1
           /\ jobs'[Len(jobs')].func = "delete_pr_mirror"
           /\ jobs'[Len(jobs')].type = "delete"
           /\ jobs'[Len(jobs')].origin = TASK_QUEUE_LONG
           /\ jobs'[Len(jobs')].depends_on = NoJob
           /\ jobs'[Len(jobs')].status = "queued"
           /\ closed' = closed \cup {jobs'[Len(jobs')].pr_number}
           /\ jobs'[Len(jobs')].pr_number \notin closed
           /\ queue' = Append(queue, Len(jobs'))
           /\ tasks' = tasks
       /\ closed' = closed => MirrorJobs(jobs') = MirrorJobs(jobs)]_vars

\* both pull requests have been closed
C17_Witness ==
    /\ closed = PRs
    /\ Cardinality({j \in DOMAIN jobs : jobs[j].type = "delete"}) = 2

(***************************************************************************)
(* C16.  The purge of a rebuild.                                           *)
(***************************************************************************)
\* C16: the PR mirrors differ from what they were when the request came in,
\* or a purge is on record, only in an execution with rebuild_everything
\* set, with the GitLab token, for the author or a collaborator on record,
\* and after GitLab answered with a commit that lists the PR's head; the
\* one purge is then that of the prefix made from the PR's number and
\* branch.
C16_PurgeGuarded ==
    (pipeline.purged # <<>> \/ s3 # PipelineStore) =>
        /\ pipeline.rebuild_everything
        /\ pipeline.GITLAB_TOKEN
        /\ pipeline.sender = Author \/ pipeline.lookup = "found"
        /\ pipeline.gitlab_commit # Unset
        /\ ListsHead(pipeline.gitlab_commit)
        /\ pipeline.purged
               = <<purge_prefix(pipeline.number, pipeline.head_ref).prefix>>
        /\ s3 = delete_pr_mirror(
                    PipelineStore,
                    purge_prefix(pipeline.number, pipeline.head_ref))

\* a collaborator's rebuild has wiped a PR mirror
C16_Witness ==
    /\ pipeline.pc = "returned"
    /\ pipeline.lookup = "found"
    /\ pipeline.purged # <<>>
    /\ s3 # PipelineStore

(***************************************************************************)
(* C18.  Who may have the style fixed.                                     *)
(***************************************************************************)
\* the requester is the PR author, or the lookup found a collaborator
StyleAuthorized == style.sender = Author \/ style.lookup = "found"

\* C18: the acknowledgement, the clone and the formatter steps are reached
\* only for the PR author or a collaborator on record, and for them the
\* acknowledgement is the first comment once the pull request was fetched;
\* for a requester the lookup did not find, the task has returned after the
\* one permission comment, without acknowledgement, clone, formatter run,
\* commit or push.
C18_StyleAuthorization ==
    /\ (\/ style.pc \in {"prepare", "style", "commit", "push"}
        \/ style.cloned
        \/ style.comments # <<>> /\ style.comments[1] = [kind |-> "on_my_way"])
           => StyleAuthorized
    /\ (StyleAuthorized /\ (style.pc # "raised" \/ style.lookup = "found")
                        /\ style.pc # "start")
           => /\ style.comments # <<>>
              /\ style.comments[1] = [kind |-> "on_my_way"]
              /\ \A i \in DOMAIN style.comments :
                     style.comments[i].kind # "permission_denied"
    /\ style.lookup = "404"
           => /\ style.pc = "returned"
              /\ style.comments = <<PermissionDenied(style.sender)>>
              /\ ~style.cloned
              /\ style.message = <<>>
              /\ style.commit_output = <<>>
              /\ style.pushes = <<>>

\* one requester was refused
C18_Witness ==
    /\ style.sender # Author
    /\ style.lookup = "404"
    /\ style.pc = "returned"

(***************************************************************************)
(* C19.  The push that the remote rejects.                                 *)
(***************************************************************************)
\* C19 as stated: whenever the push did not succeed (git left with a status
\* other than 0), the task has returned and its last comment is the composed
\* style message followed by the note about edits from maintainers.
C19_RejectedPushNoted ==
    \A i \in DOMAIN style.pushes :
        style.pushes[i].exit_code # 0 =>
            /\ style.pc = "returned"
            /\ style.comments[Len(style.comments)] =
                   [kind |-> "style",
                    message |-> style.message,
                    then |-> "updated_but_not_pushed"]

(***************************************************************************)
(* C20.  What a completed pass over a stack leaves in its shared mirror.   *)
(***************************************************************************)
\* the store a pass of a run started from
StoreBeforePass(run, k) == IF k = 1 THEN run.before ELSE run.passes[k - 1].store

\* the archives and spec files a stack's shared mirror holds
Extended(store, k) ==
    {o \in SharedListing(store, k) : EndsWithAny(o.key, RecognizedSuffixes)}

\* the objects a pass deleted from the shared mirror of its stack
DeletedInPass(run, k) ==
    SharedListing(StoreBeforePass(run, k), k)
        \ SharedListing(run.passes[k].store, k)

\* C20: after a pass over a stack that did not raise, the stack's shared
\* mirror holds no archive or spec file whose hash the pass recorded as
\* expired or as duplicated; and when the pass deleted a spec file with a
\* hash, no archive or spec file with that hash is left.
C20_PruneCascade ==
    \A i \in DOMAIN prune_log :
        \A k \in DOMAIN prune_log[i].passes :
            ~prune_log[i].passes[k].raised =>
                /\ \A o \in Extended(prune_log[i].passes[k].store, k) :
                       hash_from_key(o.key) \notin
                           (prune_log[i].passes[k].expired_specs
                                \cup prune_log[i].passes[k].duplicated)
                /\ \A d \in DeletedInPass(prune_log[i], k) :
                       ( /\ EndsWithAny(d.key, SpecExtensions)
                         /\ Truthy(hash_from_key(d.key)) )
                       => \A o \in Extended(prune_log[i].passes[k].store, k) :
                              hash_from_key(o.key) # hash_from_key(d.key)

\* a pass that did not raise deleted a spec file for age and a younger
\* archive with the same hash
C20_Witness ==
    \E i \in DOMAIN prune_log :
        \E k \in DOMAIN prune_log[i].passes :
            /\ ~prune_log[i].passes[k].raised
            /\ \E d, a \in DeletedInPass(prune_log[i], k) :
                  /\ EndsWithAny(d.key, SpecExtensions)
                  /\ PastRetirement(d, prune_log[i].at)
                  /\ EndsWith(a.key, SufSpack)
                  /\ ~PastRetirement(a, prune_log[i].at)
                  /\ hash_from_key(a.key) = hash_from_key(d.key)
                  /\ hash_from_key(d.key) \in prune_log[i].passes[k].expired_specs

(***************************************************************************)
(* C21.  Keys whose hash cannot be told.                                   *)
(***************************************************************************)
\* the objects of a store whose key yields no hash, or more than one
Ambiguous(store) ==
    {o \in store[PrsBucket] \cup store[PubBucket] :
        ~Truthy(hash_from_key(o.key))}

\* C21 as stated: a prune run over mirrors that hold an object whose key
\* yields no hash or several does not raise, records no such hash as expired
\* or duplicated, and its second scan deletes no such object (an object that
\* went although it was not past retirement has a hash).
C21_AmbiguousDegrades ==
    \A i \in DOMAIN prune_log :
        Ambiguous(prune_log[i].before) # {} =>
            /\ ~prune_log[i].raised
            /\ \A k \in DOMAIN prune_log[i].passes :
                   \A h \in prune_log[i].passes[k].expired_specs
                                \cup prune_log[i].passes[k].duplicated :
                       Truthy(h)
            /\ \A o \in prune_log[i].before[PrsBucket]
                            \ prune_log[i].after[PrsBucket] :
                   ~PastRetirement(o, prune_log[i].at)
                       => Truthy(hash_from_key(o.key))

(***************************************************************************)
(* A copy and a prune side by side: two workers of tasks_long, one in      *)
(* copy_pr_mirror (workers.py 394-428) and one in prune_mirror_duplicates  *)
(* (512-622), each step a listing or a request to S3; then prune runs      *)
(* alone.                                                                  *)
(***************************************************************************)
\* the keys of a set in listing order
RECURSIVE Sorted(_)
Sorted(keys) ==
    IF keys = {} THEN <<>>
    ELSE <<CHOOSE k \in keys : \A other \in keys : ~KeyLess(other, k)>>
         \o Sorted(keys \ {CHOOSE k \in keys :
                               \A other \in keys : ~KeyLess(other, k)})

\* the PR mirror that is copied, and where it is copied to
RacePrUrl == s3_parse_url(close_pr_mirror_url(1))

RaceSharedUrl == s3_parse_url(shared_pr_mirror_url)

\* the objects of the PR mirror: a spec file and its archive
RacePrKeys ==
    { PrKey(1, DashA, SufSpecJson),
      Nested(RacePrUrl.prefix \o <<"/">> \o Stacks[2], DashA, SufSpack) }

\* what the shared and the published mirror may hold when the two start
RaceShared ==
    { {} }
    \cup { {[key |-> Named(SharedPrefix(2), DashC, SufSpecJson),
             last_modified |-> Now0 - age]} :
              age \in {6 * TicksPerDay, 8 * TicksPerDay} }

RacePublished ==
    { {[key |-> k, last_modified |-> 0] : k \in K} :
        K \in SUBSET { Named(PublishPrefix(2), DashA, SufSpecJson),
                       Named(PublishPrefix(1), <<>>, SufSpecJson) } }

\* the keys the loop of copy_pr_mirror goes through (413-416)
CopyListing(store, pr_url) ==
    Sorted({o.key : o \in {x \in ListObjects(store[pr_url.bucket],
                                             pr_url.prefix) :
                              EndsWithAny(x.key, ArchiveAndSpecExtensions)}})

\* new_obj.copy(...) of one listed key (419-428)
copy_object(store, pr_url, shared_pr_url, key, t) ==
    [store EXCEPT ![shared_pr_url.bucket] =
        {o \in @ : o.key # shared_pr_url.prefix
                               \o Drop(key, Len(pr_url.prefix) + 1)}
        \cup {[key |-> shared_pr_url.prefix
                           \o Drop(key, Len(pr_url.prefix) + 1),
               last_modified |-> t]}]

InitRace ==
    /\ \E shared \in RaceShared, published \in RacePublished :
        s3 = [b \in {PrsBucket, PubBucket} |->
                 IF b = PrsBucket
                 THEN shared \cup {[key |-> k,
                                    last_modified |-> Now0 - TicksPerDay] :
                                      k \in RacePrKeys}
                 ELSE published]
    /\ now = Now0
    /\ prune_log = <<>>
    /\ race = [pc |-> "run",
               copy_todo |-> CopyListing(
                   [b \in {PrsBucket, PubBucket} |->
                       IF b = PrsBucket
                       THEN {[key |-> k, last_modified |-> Now0 - TicksPerDay] :
                                k \in RacePrKeys}
                       ELSE {}],
                   RacePrUrl),
               prune |-> "first",
               stack |-> 1,
               expired_specs |-> {},
               shared_pr_specs |-> {},
               duplicated |-> {}]
    /\ HashIdle
    /\ QueueIdle
    /\ PipelineIdle
    /\ StyleIdle
    /\ MirrorIdle
    /\ ServerIdle

\* the copy of the next listed object
RaceCopyStep ==
    /\ race.pc = "run"
    /\ race.copy_todo # <<>>
    /\ s3' = copy_object(s3, RacePrUrl, RaceSharedUrl,
                         Head(race.copy_todo), now)
    /\ race' = [race EXCEPT !.copy_todo = Tail(@)]
    /\ UNCHANGED <<now, prune_log>>
    /\ UNCHANGED <<hvars, svars, qvars, pipeline, style, mirror_log>>

\* 554-594: the first scan of a stack's shared mirror
RaceFirstScan ==
    /\ race.pc = "run"
    /\ race.prune = "first"
    /\ s3' = [s3 EXCEPT ![StackMirrors[race.stack].shared_pr_url.bucket] =
                 @ \ Aged(SharedListing(s3, race.stack), now)]
    /\ race' = [race EXCEPT
                   !.prune = "published",
                   !.expired_specs =
                       ExpiredSpecs(SharedListing(s3, race.stack), now),
                   !.shared_pr_specs =
                       SharedPrSpecs(SharedListing(s3, race.stack), now)]
    /\ UNCHANGED <<now, prune_log>>
    /\ UNCHANGED <<hvars, svars, qvars, pipeline, style, mirror_log>>

\* 596-605: the scan of the stack's published mirror
RacePublishedScan ==
    /\ race.pc = "run"
    /\ race.prune = "published"
    /\ race' = IF PublishScanRaises(s3, race.stack)
               THEN [race EXCEPT !.prune = "raised"]
               ELSE [race EXCEPT
                        !.prune = "second",
                        !.duplicated =
                            Duplicated(s3, race.stack, race.shared_pr_specs)]
    /\ UNCHANGED s3vars
    /\ UNCHANGED <<hvars, svars, qvars, pipeline, style, mirror_log>>

\* 607-622: the second scan, and on to the next stack
RaceSecondScan ==
    /\ race.pc = "run"
    /\ race.prune = "second"
    /\ \E pass \in {SecondScan(s3, race.stack, race.expired_specs,
                               race.duplicated)} :
        /\ s3' = pass.store
        /\ race' = [race EXCEPT
                       !.prune = IF pass.raised THEN "raised"
                                 ELSE IF race.stack = Len(Stacks) THEN "done"
                                 ELSE "first",
                       !.stack = IF pass.raised \/ race.stack = Len(Stacks)
                                 THEN @ ELSE @ + 1]
    /\ UNCHANGED <<now, prune_log>>
    /\ UNCHANGED <<hvars, svars, qvars, pipeline, style, mirror_log>>

\* the copy and the prune have both ended
RaceOver ==
    /\ race.pc = "run"
    /\ race.copy_todo = <<>>
    /\ race.prune \in {"done", "raised"}

\* a prune with no other writer
RaceLaterPrune == RaceOver /\ PruneRun

NextRace ==
    \/ RaceCopyStep
    \/ RaceFirstScan
    \/ RacePublishedScan
    \/ RaceSecondScan
    \/ RaceLaterPrune

SpecRace == InitRace /\ [][NextRace]_vars

(***************************************************************************)
(* C22.  What the prune after a copy and a prune side by side leaves.      *)
(***************************************************************************)
\* the hashes of the spec files of a stack's published mirror
PublishedHashes(store, k) ==
    TruthyHashesOf({o \in PublishedListing(store, k) :
                       EndsWithAny(o.key, SpecExtensions)})

\* C22 as stated: after a prune that ran alone, following a copy and a prune
\* that ran side by side, no stack's shared mirror holds an archive or spec
\* file whose hash (when it has one) is also in that stack's published
\* mirror, and none holds an object past the retirement age.
C22_SelfHealing ==
    \A i \in DOMAIN prune_log :
        RaceOver =>
            \A k \in DOMAIN Stacks :
                \A o \in SharedListing(prune_log[i].after, k) :
                    /\ ~PastRetirement(o, prune_log[i].at)
                    /\ ( /\ EndsWithAny(o.key, RecognizedSuffixes)
                         /\ Truthy(hash_from_key(o.key)) )
                       => hash_from_key(o.key) \notin
                              PublishedHashes(prune_log[i].after, k)

(***************************************************************************)
(* C23.  The job that skips.                                               *)
(***************************************************************************)
\* worker w's prune or reindex job ends in this step
GuardedJobEnds(w) ==
    /\ running[w] # NoJob
    /\ jobs[running[w]].type \in GuardedTypes
    /\ running'[w] = NoJob

\* C23: a prune or reindex job that finds a job of its type pending on its
\* queue when it checks ends as skipped, and in the step in which it does so
\* both mirrors stay as they are, no prune is logged, no job is created,
\* removed or altered by the task, and the pending jobs are those of before,
\* followed only by the jobs the queue releases because this job has ended.
C23_SkipNoSideEffects ==
    [][\A w \in Workers :
          GuardedJobEnds(w) =>
              /\ (SameTypePending(running[w], queue, jobs) # {}
                    <=> jobs'[running[w]].outcome = "skipped")
              /\ jobs'[running[w]].outcome = "skipped" =>
                    /\ s3' = s3
                    /\ prune_log' = prune_log
                    /\ jobs'[running[w]].status = "finished"
                    /\ DOMAIN jobs' = DOMAIN jobs
                    /\ \A k \in DOMAIN jobs :
                           (k # running[w] /\ jobs[k].depends_on # running[w])
                               => jobs'[k] = jobs[k]
                    /\ queue' = queue \o Dependents(jobs, running[w], "finished")
                    /\ tasks' = tasks]_vars

\* a prune job was skipped while the shared mirror held what a prune deletes
C23_Witness ==
    \E j \in DOMAIN jobs :
        /\ jobs[j].type = "prune"
        /\ jobs[j].outcome = "skipped"
        /\ PruneBody(s3, now).store # s3

(***************************************************************************)
(* The mirror harness: copy_pr_mirror (workers.py 394-428) and             *)
(* delete_pr_mirror (431-443) called on bounded mirrors, one call at a     *)
(* time, with the urls close_pr_mirror builds.                             *)
(***************************************************************************)
MaxMirrorCalls == 2

MaxMirrorTicks == 1

\* what the PR mirrors may hold
MirrorPrKeys ==
    { PrKey(1, DashA, SufSpack),
      PrKey(1, DashA, SufSpecJson),
      PrKey(1, DashA, SufSpecJsonSig),
      PrKey(1, DashC, SufTxt),
      PrKey(2, DashC, SufSpecYaml) }

\* what the shared mirror may hold before
MirrorSharedKeys ==
    { Named(SharedPrefix(2), DashA, SufSpecJson),
      Named(SharedPrefix(2), DashC, SufTxt) }

InitMirror ==
    /\ \E pr \in SUBSET MirrorPrKeys, shared \in SUBSET MirrorSharedKeys :
        s3 = [b \in {PrsBucket, PubBucket} |->
                 IF b = PrsBucket
                 THEN {[key |-> k, last_modified |-> Now0 - TicksPerDay] :
                          k \in pr}
                      \cup {[key |-> k, last_modified |-> 0] : k \in shared}
                 ELSE {[key |-> Named(PublishPrefix(2), DashA, SufSpecJson),
                        last_modified |-> 0]}]
    /\ now = Now0
    /\ prune_log = <<>>
    /\ mirror_log = <<>>
    /\ HashIdle
    /\ QueueIdle
    /\ PipelineIdle
    /\ StyleIdle
    /\ RaceIdle
    /\ ServerIdle

\* what the harness keeps of a call
MirrorCall(task, url, after) ==
    /\ s3' = after
    /\ mirror_log' = Append(mirror_log,
           [task |-> task, url |-> url, before |-> s3, after |-> after,
            at |-> now])
    /\ UNCHANGED <<now, prune_log>>
    /\ UNCHANGED <<hvars, svars, qvars, pipeline, style, race>>

\* copy_pr_mirror(pr_mirror_url, shared_pr_mirror_url), as mirrors.py 63-70
\* passes them
CopyCall ==
    /\ Len(mirror_log) < MaxMirrorCalls
    /\ \E n \in PRs :
        MirrorCall("copy_pr_mirror", close_pr_mirror_url(n),
                   copy_pr_mirror(s3, s3_parse_url(close_pr_mirror_url(n)),
                                  s3_parse_url(shared_pr_mirror_url), now))

\* delete_pr_mirror(pr_mirror_url), as mirrors.py 103-109 passes it
DeleteCall ==
    /\ Len(mirror_log) < MaxMirrorCalls
    /\ \E n \in PRs :
        MirrorCall("delete_pr_mirror", close_pr_mirror_url(n),
                   delete_pr_mirror(s3, s3_parse_url(close_pr_mirror_url(n))))

\* time passes between two calls
MirrorTick ==
    /\ now < Now0 + MaxMirrorTicks
    /\ now' = now + 1
    /\ UNCHANGED <<s3, prune_log, mirror_log>>
    /\ UNCHANGED <<hvars, svars, qvars, pipeline, style, race>>

NextMirror == CopyCall \/ DeleteCall \/ MirrorTick

SpecMirror == InitMirror /\ [][NextMirror]_vars

(***************************************************************************)
(* C24.  What a copy leaves.                                               *)
(***************************************************************************)
KeysOf(objects) == {o.key : o \in objects}

\* the part of a key after a prefix it starts with
AfterPrefix(key, prefix) == SubSeq(key, Len(prefix) + 1, Len(key))

\* the PR-mirror objects a copy call found, and of them the ones to copy
CallListing(call) ==
    ListObjects(call.before[s3_parse_url(call.url).bucket],
                s3_parse_url(call.url).prefix)

CallSources(call) ==
    {o \in CallListing(call) : EndsWithAny(o.key, RecognizedSuffixes)}

\* the keys the copies must have
CallTargets(call) ==
    { pr_shared_mirror \o AfterPrefix(o.key, s3_parse_url(call.url).prefix) :
        o \in CallSources(call) }

\* C24: after a copy the PR mirror is as before; the shared mirror holds, for
\* each PR-mirror object with one of the four suffixes, an object under the
\* source key with the PR prefix replaced by the shared prefix; nothing else
\* was written and nothing outside those keys changed; and a second copy right
\* after the first leaves the same keys (and, at the same clock reading, the
\* same objects).
C24_CopySemantics ==
    \A i \in DOMAIN mirror_log :
        mirror_log[i].task = "copy_pr_mirror" =>
            /\ CallListing(mirror_log[i])
                   \subseteq mirror_log[i].after[PrsBucket]
            /\ mirror_log[i].after[PubBucket] = mirror_log[i].before[PubBucket]
            /\ CallTargets(mirror_log[i])
                   \subseteq KeysOf(mirror_log[i].after[PrsBucket])
            /\ \A o \in mirror_log[i].after[PrsBucket] :
                   o \in mirror_log[i].before[PrsBucket]
                       \/ o.key \in CallTargets(mirror_log[i])
            /\ \A o \in mirror_log[i].before[PrsBucket] :
                   o \in mirror_log[i].after[PrsBucket]
                       \/ o.key \in CallTargets(mirror_log[i])
            /\ \A o, c \in mirror_log[i].after[PrsBucket] :
                   o.key = c.key => o = c
            /\ ( /\ i > 1
                 /\ mirror_log[i - 1].task = "copy_pr_mirror"
                 /\ mirror_log[i - 1].url = mirror_log[i].url )
               => /\ KeysOf(mirror_log[i].after[PrsBucket])
                        = KeysOf(mirror_log[i].before[PrsBucket])
                  /\ mirror_log[i].at = mirror_log[i - 1].at
                        => mirror_log[i].after = mirror_log[i].before

\* a PR mirror with an archive, a spec file and a file of another kind was
\* copied twice
C24_Witness ==
    /\ Len(mirror_log) = 2
    /\ mirror_log[1].task = "copy_pr_mirror"
    /\ mirror_log[2].task = "copy_pr_mirror"
    /\ mirror_log[1].url = mirror_log[2].url
    /\ mirror_log[2].at > mirror_log[1].at
    /\ \E o \in CallListing(mirror_log[1]) : o.key = PrKey(1, DashC, SufTxt)
    /\ \E o \in CallListing(mirror_log[1]) : o.key = PrKey(1, DashA, SufSpack)
    /\ Named(SharedPrefix(2), DashA, SufSpack)
           \in KeysOf(mirror_log[2].after[PrsBucket])
    /\ Named(SharedPrefix(2), DashC, SufTxt)
           \notin KeysOf(mirror_log[2].after[PrsBucket])

(***************************************************************************)
(* C25.  What a delete leaves.                                             *)
(***************************************************************************)
\* the prefix of a pull request's mirror, written out
WrittenPrefix(n) ==
    <<"s","p","a","c","k","/","p","r">> \o DecimalStr(n) \o <<"_">>
        \o PrBranches[n]

\* C25: after delete_pr_mirror(url) no object of the parsed bucket has a key
\* that starts with the parsed prefix, and the objects whose key does not
\* start with it, in either bucket, are exactly those of before; for the url
\* of pull request n the prefix is spack/pr<n>_<branch>.
C25_DeleteSemantics ==
    \A i \in DOMAIN mirror_log :
        mirror_log[i].task = "delete_pr_mirror" =>
            /\ \A n \in PRs :
                   mirror_log[i].url = close_pr_mirror_url(n) =>
                       /\ s3_parse_url(mirror_log[i].url).bucket = PrsBucket
                       /\ s3_parse_url(mirror_log[i].url).prefix
                              = WrittenPrefix(n)
            /\ \A o \in mirror_log[i].after[
                            s3_parse_url(mirror_log[i].url).bucket] :
                   ~StartsWith(o.key, s3_parse_url(mirror_log[i].url).prefix)
            /\ \A b \in {PrsBucket, PubBucket} :
                   mirror_log[i].after[b] =
                       {o \in mirror_log[i].before[b] :
                           \/ b # s3_parse_url(mirror_log[i].url).bucket
                           \/ ~StartsWith(o.key,
                                  s3_parse_url(mirror_log[i].url).prefix)}

\* a PR mirror was deleted while another PR's mirror and the shared mirror
\* held objects
C25_Witness ==
    \E i \in DOMAIN mirror_log :
        /\ mirror_log[i].task = "delete_pr_mirror"
        /\ mirror_log[i].url = close_pr_mirror_url(1)
        /\ CallListing(mirror_log[i]) # {}
        /\ \E o \in mirror_log[i].after[PrsBucket] :
               o.key = PrKey(2, DashC, SufSpecYaml)
        /\ \E o \in mirror_log[i].after[PrsBucket] :
               StartsWith(o.key, pr_shared_mirror)

(***************************************************************************)
(* C26.  The temporary directory of the style fix.                         *)
(***************************************************************************)
\* C26: when fix_style_task has ended, by return or by exception, no
\* temporary directory is left and the worker is in the directory it was in
\* before; while the formatter, the commit and the push are under way the
\* worker is in the clone inside the temporary directory.
C26_TempDirScope ==
    /\ style.pc \in {"returned", "raised"} =>
           /\ style.fs.cwd = WorkerDir
           /\ ~style.fs.tmp_exists
    /\ style.pc \in {"style", "commit", "push"} =>
           /\ style.fs.cwd = "tmp/spack"
           /\ style.fs.tmp_exists
           /\ style.fs.pwd = WorkerDir

\* the commit raised, after the task had changed into the clone
C26_Witness ==
    /\ style.pc = "raised"
    /\ style.message # <<>>
    /\ style.fs.pwd = WorkerDir

(***************************************************************************)
(* C27.  The comments of a style fix, in order.                            *)
(***************************************************************************)
\* C27: the acknowledgement is the first comment and is there before the
\* clone; until the task ends it is the only one; and an authorized execution
\* that has returned has posted exactly one more, the message composed from
\* the formatter's output with its closing note, after a commit that found
\* nothing as after a push, successful or not.
C27_CommentOrdering ==
    /\ style.cloned =>
           /\ style.comments # <<>>
           /\ style.comments[1] = [kind |-> "on_my_way"]
    /\ style.pc \in {"prepare", "style", "commit", "push"} =>
           style.comments = <<[kind |-> "on_my_way"]>>
    /\ (style.pc = "returned" /\ StyleAuthorized) =>
           /\ Len(style.comments) = 2
           /\ style.comments[1] = [kind |-> "on_my_way"]
           /\ style.comments[2].kind = "style"
           /\ style.comments[2].message = style.message
           /\ \E res \in StyleOutputs :
                  style.message = get_style_message(res)
           /\ style.comments[2].then =
                  IF style.pushes = <<>> THEN "no_further_changes"
                  ELSE IF style.pushes[1].exit_code \in {0, 1} THEN "updated"
                  ELSE "updated_but_not_pushed"

\* the push raised and the final comment followed the acknowledgement
C27_Witness ==
    /\ style.pc = "returned"
    /\ Len(style.pushes) = 1
    /\ style.pushes[1].exit_code = 128
    /\ Len(style.comments) = 2
    /\ style.comments[2].kind = "style"

(***************************************************************************)
(* C28.  The age rule at the retirement age.                               *)
(***************************************************************************)
\* the objects of a run's shared mirror that are older than the retirement
\* age, in whole days
OlderThanRetirement(run) ==
    {x \in SharedMirror(run.before) :
        Days(AgeAt(x, run.at)) > shared_pr_mirror_retire_after_days}

\* C28 as stated: an object whose age is exactly the retirement age is not
\* deleted for its age: if a prune run removed it, its hash is that of an
\* object older than the retirement age or of a published spec file.
C28_AgeBoundary ==
    \A i \in DOMAIN prune_log :
        \A o \in SharedMirror(prune_log[i].before) :
            ( /\ AgeAt(o, prune_log[i].at)
                     = shared_pr_mirror_retire_after_days * TicksPerDay
              /\ o \notin prune_log[i].after[PrsBucket] )
            => /\ Truthy(hash_from_key(o.key))
               /\ \/ \E x \in OlderThanRetirement(prune_log[i]) :
                         hash_from_key(x.key) = hash_from_key(o.key)
                  \/ \E p \in prune_log[i].before[PubBucket] :
                         hash_from_key(Lower(p.key)) = hash_from_key(o.key)

(***************************************************************************)
(* C29.  The comments of one pipeline job.                                 *)
(***************************************************************************)
PipelineCommentKinds ==
    {"no_authentication", "permission_denied", "cannot_run_pipeline",
     "started", "problem"}

\* C29: an execution of run_pipeline_task that has returned has posted
\* exactly one comment, of one of the five kinds; one that raised has posted
\* none, and after the failure hook the error comment is the only one; before
\* the task ends nothing is posted.
C29_OneCommentPerJob ==
    /\ pipeline.pc = "returned" =>
           /\ Len(pipeline.comments) = 1
           /\ pipeline.comments[1].kind \in PipelineCommentKinds
    /\ pipeline.pc = "raised" => pipeline.comments = <<>>
    /\ pipeline.pc = "failed" => pipeline.comments = <<[kind |-> "error"]>>
    /\ pipeline.pc \notin {"returned", "raised", "failed"} =>
           pipeline.comments = <<>>

\* the trigger request raised and the hook posted the job's only comment
C29_Witness ==
    /\ pipeline.pc = "failed"
    /\ pipeline.comments = <<[kind |-> "error"]>>
    /\ \E i \in DOMAIN pipeline.requests : pipeline.requests[i].method = "POST"

(***************************************************************************)
(* C30.  The mirror a rebuild purges and the mirror a close deletes.       *)
(***************************************************************************)
\* C30 as stated: the prefix run_pipeline_task purged for a pull request is
\* the prefix of the url that close_pr_mirror builds for the same repository,
\* number and head branch and hands to delete_pr_mirror.
C30_PurgeIsCloseMirror ==
    \A i \in DOMAIN pipeline.purged :
        pipeline.purged[i] =
            s3_parse_url(pr_mirror_url(event_project, pipeline.number,
                                       pipeline.head_ref)).prefix


(***************************************************************************)
(* C31.  The dedup guard lets one request through.  The workers keep       *)
(* taking jobs for as long as there are any (the rq worker loop), and a    *)
(* task that was started runs to its end.                                  *)
(***************************************************************************)
SpecFair ==
    /\ Init
    /\ [][Next]_vars
    /\ \A w \in Workers :
        /\ WF_vars(Dequeue(w))
        /\ WF_vars(RunCopy(w))
        /\ WF_vars(RunPrune(w))
        /\ WF_vars(RunReindex(w))
        /\ WF_vars(RunDelete(w))

\* a job of the given type is on the queue
Pending(type) ==
    \E j \in DOMAIN jobs : jobs[j].type = type /\ jobs[j].status = "queued"

\* a job of the given type went past its skip check
SomePerforms(type) ==
    \E j \in DOMAIN jobs : jobs[j].type = type /\ Performs(j)

\* C31: a prune or reindex job that skipped saw another job of its type on
\* its queue when it checked, never itself; and once a job of one of the two
\* types is on the queue, a job of that type goes past its skip check, into
\* the operation, however the workers interleave.
C31_DedupKeepsOne ==
    /\ [](\A j \in DOMAIN jobs :
            jobs[j].outcome = "skipped" =>
                /\ jobs[j].pending_at_check # {}
                /\ j \notin jobs[j].pending_at_check)
    /\ \A type \in GuardedTypes : Pending(type) ~> SomePerforms(type)

\* a job skipped for a job pending behind it, and that job, the last of its
\* type and with none pending when it started, did the operation
C31_Witness ==
    \E j, k \in DOMAIN jobs :
        /\ j # k
        /\ jobs[j].type \in GuardedTypes
        /\ jobs[j].outcome = "skipped"
        /\ k \in jobs[j].pending_at_check
        /\ jobs[k].pending_at_start = {}
        /\ jobs[k].outcome = "performed"
        /\ \A i \in DOMAIN jobs :
            jobs[i].type = jobs[j].type => Terminal(jobs[i])


(***************************************************************************)
(* C32.  The jobs of one pull request are not deduplicated.                *)
(***************************************************************************)
\* worker w's job, a copy or a delete, ends in this step without raising
PerPrJobEnds(w) ==
    /\ running[w] # NoJob
    /\ jobs[running[w]].type \in {"copy", "delete"}
    /\ running'[w] = NoJob
    /\ jobs'[running[w]].outcome # "raised"

\* the mirror of the pull request of worker w's job
OwnMirror(w) == PrMirrors[jobs[running[w]].pr_number]

\* C32: whenever a copy or a delete job ends without raising, it did its
\* operation and did it on the mirror of its own pull request, whatever is
\* pending on the queue: after a delete nothing is left under the prefix of
\* its mirror, and after a copy every archive and spec file of its mirror
\* has its key in the shared mirror.  copy and delete are not among the types
\* that look for pending jobs of their type.
C32_PerPrJobsRun ==
    [][/\ {"copy", "delete"} \cap GuardedTypes = {}
       /\ \A w \in Workers :
            PerPrJobEnds(w) =>
                /\ jobs'[running[w]].outcome = "performed"
                /\ jobs[running[w]].type = "delete" =>
                       ListObjects(s3'[OwnMirror(w).bucket],
                                   OwnMirror(w).prefix) = {}
                /\ jobs[running[w]].type = "copy" =>
                       CopiedKeys(s3, OwnMirror(w), SharedPrMirror)
                           \subseteq KeysOf(s3'[SharedPrMirror.bucket])]_vars

\* job j did its operation while job k, of the same type and of another
\* pull request, was pending
RanBesidePending(j, k, type) ==
    /\ jobs[j].type = type
    /\ jobs[j].outcome = "performed"
    /\ k \in jobs[j].pending_at_check
    /\ jobs[k].pr_number # jobs[j].pr_number

\* a delete job ran while another pull request's delete job was pending, and
\* a copy job while another pull request's copy job was
C32_Witness ==
    /\ \E j, k \in DOMAIN jobs : RanBesidePending(j, k, "delete")
    /\ \E j, k \in DOMAIN jobs : RanBesidePending(j, k, "copy")


(***************************************************************************)
(* C33.  What a prune leaves alone.                                        *)
(***************************************************************************)
\* the objects a run deleted from the bucket of the PR mirrors
DeletedInRun(run) == run.before[PrsBucket] \ run.after[PrsBucket]

\* a pass of the run deleted the object and recorded its hash as expired or
\* as duplicated
DeletedForHash(run, o) ==
    \E k \in DOMAIN run.passes :
        /\ o \in DeletedInPass(run, k)
        /\ hash_from_key(o.key) \in
               (run.passes[k].expired_specs \cup run.passes[k].duplicated)

\* C33: a run of the prune, whether or not it raised, leaves the published
\* mirror as it was, writes no object, and deletes only objects of the shared
\* mirror that were past the retirement age or that carry one of the four
\* extensions and a hash the pass over their stack recorded as expired or as
\* duplicated; the objects of a pull request's own mirror, in the same
\* bucket, stay.
C33_PruneFrame ==
    \A i \in DOMAIN prune_log :
        /\ prune_log[i].after[PubBucket] = prune_log[i].before[PubBucket]
        /\ prune_log[i].after[PrsBucket] \subseteq prune_log[i].before[PrsBucket]
        /\ \A o \in DeletedInRun(prune_log[i]) :
            /\ o \in SharedMirror(prune_log[i].before)
            /\ \/ PastRetirement(o, prune_log[i].at)
               \/ /\ EndsWithAny(o.key, RecognizedSuffixes)
                  /\ DeletedForHash(prune_log[i], o)

\* a run deleted one shared object for its age and a younger one for its
\* hash, next to a published mirror with objects and to a pull request's
\* archive that is past the retirement age and has a hash the run recorded
C33_Witness ==
    \E i \in DOMAIN prune_log :
        /\ prune_log[i].before[PubBucket] # {}
        /\ \E o \in DeletedInRun(prune_log[i]) :
               PastRetirement(o, prune_log[i].at)
        /\ \E o \in DeletedInRun(prune_log[i]) :
               ~PastRetirement(o, prune_log[i].at)
        /\ \A o \in PrMirrorContents :
            /\ o \in prune_log[i].after[PrsBucket]
            /\ PastRetirement(o, prune_log[i].at)
            /\ \E k \in DOMAIN prune_log[i].passes :
                   hash_from_key(o.key) \in
                       (prune_log[i].passes[k].expired_specs
                            \cup prune_log[i].passes[k].duplicated)


(***************************************************************************)
(* C34.  The purge of a rebuild comes before the trigger and stays.        *)
(***************************************************************************)
\* the trigger request has been sent
TriggerSent ==
    \E i \in DOMAIN pipeline.requests : pipeline.requests[i].method = "POST"

\* nothing is left under the prefix the rebuild purges
MirrorPurged ==
    /\ pipeline.purged
           = <<purge_prefix(pipeline.number, pipeline.head_ref).prefix>>
    /\ ListObjects(
           s3[purge_prefix(pipeline.number, pipeline.head_ref).bucket],
           purge_prefix(pipeline.number, pipeline.head_ref).prefix) = {}

\* C34: in an execution with rebuild_everything, once the trigger request
\* has been sent the purge has completed; and when the request then raised,
\* or GitLab's answer had no details_path, the mirror is still purged and
\* the comments are none before the failure hook, its error comment after
\* it, or the one generic comment about a problem with the trigger.
C34_PurgeThenTrigger ==
    /\ (pipeline.rebuild_everything /\ TriggerSent) => MirrorPurged
    /\ pipeline.purged # <<>> =>
        /\ MirrorPurged
        /\ pipeline.pc = "raised" => pipeline.comments = <<>>
        /\ pipeline.pc = "failed" =>
               pipeline.comments = <<[kind |-> "error"]>>
        /\ (pipeline.pc = "returned" /\ ~HasDetailsPath(pipeline.result)) =>
               pipeline.comments = <<[kind |-> "problem"]>>

\* a rebuild wiped the mirror, GitLab refused the pipeline, and the task
\* returned with the generic comment
C34_Witness ==
    /\ pipeline.pc = "returned"
    /\ pipeline.rebuild_everything
    /\ pipeline.result = [message |-> "400 Bad Request"]
    /\ MirrorPurged
    /\ s3 # PipelineStore
    /\ pipeline.comments = <<[kind |-> "problem"]>>


(***************************************************************************)
(* C35.  A collaborator lookup that fails.  One of the two tasks runs,     *)
(* run_pipeline_task or fix_style_task.                                    *)
(***************************************************************************)
InitTasks == InitPipeline \/ InitStyle

NextTasks == NextPipeline \/ NextStyle

SpecTasks == InitTasks /\ [][NextTasks]_vars

\* the lookup was answered with an error other than 404
LookupFault(response) == response.status \notin SuccessStatuses \cup {0, 404}

\* a permission-denied comment is among the comments
Denied(posted) ==
    \E i \in DOMAIN posted : posted[i].kind = "permission_denied"

\* C35: helpers.found gives None for a 404 and something truthy for every
\* answer that is no error, empty body or not, and raises again for every
\* other error.  A task whose lookup was answered 404 has returned with the
\* permission-denied comment; one whose lookup was answered without error has
\* gone on without it; one whose lookup was answered with another error has
\* raised: run_pipeline_task has then sent nothing to GitLab and purged
\* nothing, fix_style_task has cloned and pushed nothing, and their only
\* comment, if any, is the failure hook's.
C35_LookupFaults ==
    /\ \A response \in CollaboratorResponses :
        /\ helpers_found(response).raised = LookupFault(response)
        /\ response.status = 404 =>
               helpers_found(response).value = "None"
        /\ response.status \in SuccessStatuses =>
               helpers_found(response).value \notin {"None", ""}
    /\ pipeline.pc # "idle" =>
        /\ LookupFault(pipeline.response) =>
            /\ pipeline.pc \in {"raised", "failed"}
            /\ pipeline.comments \in {<<>>, <<[kind |-> "error"]>>}
            /\ pipeline.requests = <<>>
            /\ pipeline.purged = <<>>
            /\ s3 = PipelineStore
        /\ pipeline.response.status = 404 =>
            /\ pipeline.pc = "returned"
            /\ pipeline.comments = <<PermissionDenied(pipeline.sender)>>
        /\ pipeline.response.status \in SuccessStatuses =>
               ~Denied(pipeline.comments)
    /\ style.pc # "idle" =>
        /\ LookupFault(style.response) =>
            /\ style.pc = "raised"
            /\ style.comments = <<>>
            /\ ~style.cloned
            /\ style.pushes = <<>>
        /\ style.response.status = 404 =>
            /\ style.pc = "returned"
            /\ style.comments = <<PermissionDenied(style.sender)>>
        /\ style.response.status \in SuccessStatuses =>
            /\ ~Denied(style.comments)
            /\ style.comments # <<>>

\* the pipeline task failed on a lookup answered 500 and the hook has
\* commented
C35_Witness ==
    /\ pipeline.pc = "failed"
    /\ pipeline.response.status = 500
    /\ pipeline.comments = <<[kind |-> "error"]>>


(***************************************************************************)
(* C36.  The message of success and the push behind it.                    *)
(***************************************************************************)
\* the last comment says the branch was updated and carries no note about
\* the push
SaysUpdated ==
    /\ style.pc = "returned"
    /\ style.comments # <<>>
    /\ style.comments[Len(style.comments)].kind = "style"
    /\ style.comments[Len(style.comments)].then = "updated"

\* C36 as stated: the final comment says that the branch was updated, without
\* the note about the push, only when the push command left with status 0.
C36_UpdatedMeansPushed ==
    SaysUpdated =>
        /\ style.pushes # <<>>
        /\ style.pushes[Len(style.pushes)].exit_code = 0


(***************************************************************************)
(* The token cache and the authentication of a delivery (auth.py).         *)
(***************************************************************************)
\* the default of time_needed (auth.py 42), in seconds
TimeNeeded == 60

\* the life of a JWT (auth.py 76: now + 10 * 60)
JwtLifetime == 600

\* the name the JWT is cached under (auth.py 78)
JwtName == "JWT"

\* payload["installation"]["id"] of the deliveries
InstallationIds == {"1001"}

\* what parse_isotime makes of the expires_at of a new installation token,
\* less the clock: time.mktime reads the UTC stamp as local time, so the
\* result may be near the clock as well as an hour ahead of it
InstallationLifetimes == {30, 240, 3600}

\* the seconds between two readings of the clock
ClockSteps == {180}

MaxClock == 720

\* the token that was issued under a name at a reading of the clock
Issued(name, clock) == [to |-> name, at |-> clock]

\* self._tokens.get(name, (0, "")) (auth.py 44)
tokens_get(tokens, name) ==
    IF name \in DOMAIN tokens THEN tokens[name]
    ELSE [expires |-> 0, token |-> ""]

\* self._tokens[name] = (expires, token) (auth.py 49)
tokens_set(tokens, name, entry) ==
    [n \in DOMAIN tokens \cup {name} |->
        IF n = name THEN entry ELSE tokens[n]]

\* the test of auth.py 47, were it to renew a token that is good for exactly
\* time_needed
get_token_renews_at_the_limit(expires, clock, time_needed) ==
    expires <= clock + time_needed

\* the test of auth.py 47: the cached token is too near its end
get_token_renews(expires, clock, time_needed) == expires < clock + time_needed

\* what one finished call of get_token did: the entry it read and when, the
\* times it called renew and the pair renew returned, the token it returned
\* and when, and the cache before and after its last statement
TokenCall(name, read_at, cached, renews, renewed, returned_at, before) ==
    [name |-> name,
     time_needed |-> TimeNeeded,
     read_at |-> read_at,
     cached |-> cached,
     renews |-> renews,
     renewed |-> renewed,
     token |-> IF renews = 0 THEN cached.token ELSE renewed.token,
     returned_at |-> returned_at,
     before |-> before,
     after |-> IF renews = 0 THEN before
               ELSE tokens_set(before, name, renewed)]

\* renew_jwt (auth.py 68-76): a new JWT and the end of its life
renew_jwt(clock) ==
    [expires |-> clock + JwtLifetime, token |-> Issued(JwtName, clock)]

\* get_token on the path that returns the cached token (auth.py 44-47, 51)
get_token_cached(tokens, name, clock) ==
    TokenCall(name, clock, tokens_get(tokens, name), 0,
              tokens_get(tokens, name), clock, tokens)

\* get_jwt (auth.py 65-78): renew_jwt awaits nothing, so the whole call of
\* get_token runs at one reading of the clock
get_jwt(tokens, clock) ==
    IF get_token_renews(tokens_get(tokens, JwtName).expires, clock, TimeNeeded)
    THEN TokenCall(JwtName, clock, tokens_get(tokens, JwtName), 1,
                   renew_jwt(clock), clock, tokens)
    ELSE get_token_cached(tokens, JwtName, clock)

\* authenticate_installation with a token that will do (auth.py 81-110 and
\* 44-51): the cached token is returned at once
AuthCached(c) ==
    /\ auth.calls[c].pc = "idle"
    /\ \E id \in InstallationIds :
        /\ ~get_token_renews(tokens_get(auth.tokens, id).expires, auth.now,
                             TimeNeeded)
        /\ auth' = [auth EXCEPT
                       !.last = {get_token_cached(auth.tokens, id, auth.now)}]
    /\ UNCHANGED <<hvars, router, s3vars, qvars, pipeline, style, race,
                   mirror_log>>

\* the state after get_jwt returned and the request for an installation
\* token was sent
AuthPosting(c, id, jwt) ==
    /\ auth' = [auth EXCEPT
                   !.tokens = jwt.after,
                   !.last = {jwt},
                   !.calls[c] =
                       [pc |-> "posting",
                        name |-> id,
                        read_at |-> auth.now,
                        cached |-> tokens_get(auth.tokens, id),
                        jwt |-> jwt]]

\* authenticate_installation with no token or one too near its end
\* (auth.py 44-48, 90-104): renew_installation_token gets the JWT, renewing
\* it when needed, and posts the request
AuthRenew(c) ==
    /\ auth.calls[c].pc = "idle"
    /\ \E id \in InstallationIds :
        /\ get_token_renews(tokens_get(auth.tokens, id).expires, auth.now,
                            TimeNeeded)
        /\ \E jwt \in {get_jwt(auth.tokens, auth.now)} :
               AuthPosting(c, id, jwt)
    /\ UNCHANGED <<hvars, router, s3vars, qvars, pipeline, style, race,
                   mirror_log>>

\* GitHub answers with a token (auth.py 106-108, 48-51): the pair is stored
\* under the installation and the token returned
AuthGranted(c) ==
    /\ auth.calls[c].pc = "posting"
    /\ \E life \in InstallationLifetimes :
        auth' = [auth EXCEPT
                    !.tokens = tokens_set(@, auth.calls[c].name,
                                   [expires |-> auth.now + life,
                                    token |-> Issued(auth.calls[c].name, auth.now)]),
                    !.last = {auth.calls[c].jwt,
                              TokenCall(auth.calls[c].name,
                                  auth.calls[c].read_at,
                                  auth.calls[c].cached, 1,
                                  [expires |-> auth.now + life,
                                   token |-> Issued(auth.calls[c].name, auth.now)],
                                  auth.now, auth.tokens)},
                    !.calls[c] = NoCall]
    /\ UNCHANGED <<hvars, router, s3vars, qvars, pipeline, style, race,
                   mirror_log>>

\* GitHub refuses: gh.post raises inside renew, get_token stores nothing
\* and the exception leaves authenticate_installation
AuthRefused(c) ==
    /\ auth.calls[c].pc = "posting"
    /\ auth' = [auth EXCEPT !.last = {}, !.calls[c] = NoCall]
    /\ UNCHANGED <<hvars, router, s3vars, qvars, pipeline, style, race,
                   mirror_log>>

\* time passes
AuthTick ==
    /\ \E d \in ClockSteps :
        /\ auth.now + d <= MaxClock
        /\ auth' = [auth EXCEPT !.now = @ + d, !.last = {}]
    /\ UNCHANGED <<hvars, router, s3vars, qvars, pipeline, style, race,
                   mirror_log>>

InitAuth ==
    /\ HashIdle
    /\ S3Idle
    /\ QueueIdle
    /\ PipelineIdle
    /\ StyleIdle
    /\ RaceIdle
    /\ MirrorIdle
    /\ ServerIdle

NextAuth ==
    \/ \E c \in Requests : AuthCached(c)
    \/ \E c \in Requests : AuthRenew(c)
    \/ \E c \in Requests : AuthGranted(c)
    \/ \E c \in Requests : AuthRefused(c)
    \/ AuthTick

SpecAuth == InitAuth /\ [][NextAuth]_vars

(***************************************************************************)
(* C37.  What get_token returns and what it stores.                        *)
(***************************************************************************)
\* C37: every finished call of get_token(name, renew, time_needed) returned
\* the cached token and never called renew exactly when the cached expiry was
\* at least the clock plus time_needed; otherwise it called renew once, stored
\* the pair renew returned under name and returned the new token; it changed
\* no entry under another name; and when the pair of renew was good for
\* time_needed more seconds, the expiry recorded for the returned token lay
\* at least time_needed seconds past the moment of the return.
C37_TokenCache ==
    /\ \A r \in 0..(JwtLifetime + TimeNeeded), t \in {0, TimeNeeded} :
           get_token_renews(r, JwtLifetime, t) <=> ~(r >= JwtLifetime + t)
    /\ \A k \in auth.last :
        /\ k.renews \in {0, 1}
        /\ k.renews = 0 <=> k.cached.expires >= k.read_at + k.time_needed
        /\ k.renews = 0 => /\ k.token = k.cached.token
                           /\ k.after = k.before
        /\ k.renews = 1 => /\ k.token = k.renewed.token
                           /\ tokens_get(k.after, k.name) = k.renewed
        /\ DOMAIN k.after = DOMAIN k.before \cup {k.name}
        /\ \A n \in DOMAIN k.before \ {k.name} : k.after[n] = k.before[n]
        /\ (k.renews = 1 =>
                k.renewed.expires >= k.returned_at + k.time_needed)
           => /\ k.token = tokens_get(k.after, k.name).token
              /\ tokens_get(k.after, k.name).expires
                     >= k.returned_at + k.time_needed

\* a delivery has just replaced the token of its installation, which was
\* cached and too near its end, under a JWT that it got from the cache at
\* the very second the JWT was still good for time_needed
C37_Witness ==
    \E k, j \in auth.last :
        /\ k.name \in InstallationIds
        /\ k.renews = 1
        /\ k.name \in DOMAIN k.before
        /\ JwtName \in DOMAIN k.before
        /\ k.cached.expires > k.read_at
        /\ k.after # k.before
        /\ j.name = JwtName
        /\ j.renews = 0
        /\ j.cached.expires = j.read_at + TimeNeeded


(***************************************************************************)
(* The router and the events it dispatches (routes.py).                    *)
(***************************************************************************)
\* helpers.botname (helpers.py 38)
botname ==
    <<"@","s","p","a","c","k","b","o","t">>

\* helpers.aliases (helpers.py 53)
aliases ==
    <<<<"s","p","a","c","k","-","b","o","t">>,
      <<"s","p","a","c","k","b","o","t">>,
      <<"s","p","a","c","k","-","b","o","t","-","d","e","v","e","l","o","p">>,
      botname>>

\* comments.commands_message (comments.py 91-104); the backquotes of the
\* messages are written as apostrophes
commands_message ==
    <<"\n","Y","o","u"," ","c","a","n"," ","i","n","t","e","r","a","c","t",
      " ","w","i","t","h"," ","m","e"," ","i","n"," ","m","a","n","y"," ",
      "w","a","y","s","!","\n","\n","-"," ","'","@","s","p","a","c","k","b",
      "o","t"," ","h","e","l","l","o","'",":"," ","s","a","y"," ","h","e",
      "l","l","o"," ","a","n","d"," ","g","e","t"," ","a"," ","f","r","i",
      "e","n","d","l","y"," ","r","e","s","p","o","n","s","e"," ","b","a",
      "c","k","!","\n","-"," ","'","@","s","p","a","c","k","b","o","t"," ",
      "h","e","l","p","'"," ","o","r"," ","'","@","s","p","a","c","k","b",
      "o","t"," ","c","o","m","m","a","n","d","s","'",":"," ","s","e","e",
      " ","t","h","i","s"," ","m","e","s","s","a","g","e","\n","-"," ","'",
      "@","s","p","a","c","k","b","o","t"," ","r","u","n"," ","p","i","p",
      "e","l","i","n","e","'"," ","o","r"," ","'","@","s","p","a","c","k",
      "b","o","t"," ","r","e","-","r","u","n"," ","p","i","p","e","l","i",
      "n","e","'",":"," ","t","o"," ","r","e","q","u","e","s","t"," ","a",
      " ","n","e","w"," ","r","u","n"," ","o","f"," ","t","h","e"," ","G",
      "i","t","L","a","b"," ","C","I"," ","p","i","p","e","l","i","n","e",
      "\n","-"," ","'","@","s","p","a","c","k","b","o","t"," ","r","e","b",
      "u","i","l","d"," ","e","v","e","r","y","t","h","i","n","g","'",":",
      " ","t","o"," ","r","u","n"," ","a"," ","p","i","p","e","l","i","n",
      "e"," ","r","e","b","u","i","l","d","i","n","g"," ","a","l","l"," ",
      "s","p","e","c","s"," ","f","r","o","m"," ","s","o","u","r","c","e",
      ".","\n","-"," ","'","@","s","p","a","c","k","b","o","t"," ","f","i",
      "x"," ","s","t","y","l","e","'"," ","i","f"," ","y","o","u"," ","h",
      "a","v","e"," ","w","r","i","t","e"," ","a","n","d"," ","w","o","u",
      "l","d"," ","l","i","k","e"," ","m","e"," ","t","o"," ","r","u","n",
      " ","'","s","p","a","c","k"," ","s","t","y","l","e"," ","-","-","f",
      "i","x","'"," ","f","o","r"," ","y","o","u",".","\n","-"," ","'","@",
      "s","p","a","c","k","b","o","t"," ","m","a","i","n","t","a","i","n",
      "e","r","s","'"," ","o","r"," ","'","@","s","p","a","c","k","b","o",
      "t"," ","r","e","q","u","e","s","t"," ","r","e","v","i","e","w","'",
      ":"," ","t","o"," ","l","o","o","k"," ","f","o","r"," ","a","n","d",
      " ","a","s","s","i","g","n"," ","r","e","v","i","e","w","e","r","s",
      " ","f","o","r"," ","t","h","e"," ","p","u","l","l"," ","r","e","q",
      "u","e","s","t",".","\n","\n","I","'","l","l"," ","a","l","s","o"," ",
      "h","e","l","p"," ","t","o"," ","l","a","b","e","l"," ","y","o","u",
      "r"," ","p","u","l","l"," ","r","e","q","u","e","s","t"," ","a","n",
      "d"," ","a","s","s","i","g","n"," ","r","e","v","i","e","w","e","r",
      "s","!","\n","I","f"," ","y","o","u"," ","n","e","e","d"," ","h","e",
      "l","p"," ","o","r"," ","s","e","e"," ","t","h","e","r","e"," ","m",
      "i","g","h","t"," ","b","e"," ","a","n"," ","i","s","s","u","e"," ",
      "w","i","t","h"," ","m","e",","," ","o","p","e","n"," ","a","n"," ",
      "i","s","s","u","e"," ","[","h","e","r","e","]","(","h","t","t","p",
      "s",":","/","/","g","i","t","h","u","b",".","c","o","m","/","s","p",
      "a","c","k","/","s","p","a","c","k","-","b","o","t","/","i","s","s",
      "u","e","s",")","\n">>

\* comments.style_message (comments.py 106-121)
style_message ==
    <<"\n","I","t"," ","l","o","o","k","s"," ","l","i","k","e"," ","y","o",
      "u"," ","h","a","d"," ","a","n"," ","i","s","s","u","e"," ","w","i",
      "t","h"," ","s","t","y","l","e"," ","c","h","e","c","k","s","!"," ",
      "I"," ","c","a","n"," ","h","e","l","p"," ","w","i","t","h"," ","t",
      "h","a","t"," ","i","f"," ","y","o","u"," ","a","s","k"," ","m","e",
      "!"," "," ","J","u","s","t"," ","s","a","y",":","\n","\n","'","@","s",
      "p","a","c","k","b","o","t"," ","f","i","x"," ","s","t","y","l","e",
      "'","\n","\n",".",".","."," ","a","n","d"," ","I","'","l","l"," ","t",
      "r","y"," ","t","o"," ","f","i","x"," ","s","t","y","l","e"," ","a",
      "n","d"," ","p","u","s","h"," ","a"," ","c","o","m","m","i","t"," ",
      "t","o"," ","y","o","u","r"," ","f","o","r","k"," ","w","i","t","h",
      " ","t","h","e"," ","f","i","x",".","\n","\n","A","l","t","e","r","n",
      "a","t","i","v","e","l","y",","," ","y","o","u"," ","c","a","n"," ",
      "r","u","n",":","\n","\n","'","'","'","b","a","s","h","\n","$"," ",
      "s","p","a","c","k"," ","s","t","y","l","e"," ","-","-","f","i","x",
      "\n","'","'","'","\n","\n","A","n","d"," ","t","h","e","n"," ","u",
      "p","d","a","t","e"," ","t","h","e"," ","p","u","l","l"," ","r","e",
      "q","u","e","s","t"," ","h","e","r","e",".","\n">>

\* two of the greetings of comments.say_hello (comments.py 27-40)
HelloMessages ==
    {<<"H","e","l","l","o","!">>,
     <<"H","o","w","d","y","!">>}

\* what comments.tell_joke says when it got no joke (comments.py 16-20)
NoJoke ==
    <<"T","o"," ","b","e"," ","h","o","n","e","s","t",","," ","I"," ","h",
      "a","v","e","n","'","t"," ","h","e","a","r","d"," ","a","n","y"," ",
      "g","o","o","d"," ","j","o","k","e","s"," ","l","a","t","e","l","y",
      ".">>

\* the refusal of handlers.fix_style (style.py 79-83)
FixStyleRefused ==
    <<"S","o","r","r","y"," ","a","l","i","c","e",","," ","I"," ","c","a",
      "n","n","o","t"," ","d","o"," ","t","h","a","t"," ","f","o","r"," ",
      "y","o","u","."," ","O","n","l","y"," ","u","s","e","r","s"," ","w",
      "i","t","h"," ","w","r","i","t","e"," ","c","a","n"," ","m","a","k",
      "e"," ","t","h","i","s"," ","r","e","q","u","e","s","t","!">>

\* the first answer of handlers.fix_style (style.py 86-88)
FixStyleOnItsWay ==
    <<"L","e","t"," ","m","e"," ","s","e","e"," ","i","f"," ","I"," ","c",
      "a","n"," ","f","i","x"," ","t","h","a","t"," ","f","o","r"," ","y",
      "o","u","!"," ","T","h","i","s"," ","m","i","g","h","t"," ","t","a",
      "k","e"," ","a"," ","m","o","m","e","n","t",".",".",".">>

\* the last answers of handlers.fix_style (style.py 141-161)
FixStyleNothing ==
    <<"Y","o","u","r"," ","c","o","d","e"," ","l","o","o","k","s"," ","g",
      "r","e","a","t","!"," ","T","h","e","r","e","'","s"," ","n","o","t",
      "h","i","n","g"," ","t","o"," ","f","i","x",".","\n">>

FixStylePushed ==
    <<"I"," ","w","a","s"," ","a","b","l","e"," ","t","o"," ","f","i","x",
      " ","a","l","l"," ","o","f"," ","t","h","e"," ","e","r","r","o","r",
      "s"," ","i","n"," ","y","o","u","r"," ","c","o","d","e","!","\n","I",
      "'","v","e"," ","p","u","s","h","e","d"," ","a"," ","c","o","m","m",
      "i","t"," ","w","i","t","h"," ","t","h","e"," ","c","h","a","n","g",
      "e","s",".","\n">>

\* the comment of run_pipeline_task (workers.py 245)
PipelineStarted ==
    <<"I","'","v","e"," ","s","t","a","r","t","e","d"," ","t","h","a","t",
      " ","[","p","i","p","e","l","i","n","e","]","(","h","t","t","p","s",
      ":","/","/","g","i","t","l","a","b",".","s","p","a","c","k",".","i",
      "o","/","s","p","a","c","k","/","s","p","a","c","k","/","-","/","p",
      "i","p","e","l","i","n","e","s","/","5",")"," ","f","o","r"," ","y",
      "o","u","!">>

\* comments.non_reviewers_comment, filled in (comments.py 138-144)
ReviewRequest ==
    <<" "," ","@","b","o","b"," ","c","a","n"," ","y","o","u"," ","r","e",
      "v","i","e","w"," ","t","h","i","s"," ","P","R","?","\n","\n"," "," ",
      "T","h","i","s"," ","P","R"," ","m","o","d","i","f","i","e","s"," ",
      "t","h","e"," ","f","o","l","l","o","w","i","n","g"," ","p","a","c",
      "k","a","g","e","(","s",")",","," ","f","o","r"," ","w","h","i","c",
      "h"," ","y","o","u"," ","a","r","e"," ","l","i","s","t","e","d"," ",
      "a","s"," ","a"," ","m","a","i","n","t","a","i","n","e","r",":","\n",
      "\n"," "," ","*"," ","z","l","i","b","\n">>

\* what people write in their comments
UserBodies ==
    <<<<"@","s","p","a","c","k","b","o","t"," ","h","e","l","l","o">>,
      <<"@","s","p","a","c","k","b","o","t"," ","h","e","l","p">>,
      <<"@","s","p","a","c","k","b","o","t"," ","f","i","x"," ","s","t","y","l",
       "e">>,
      <<"t","e","l","l"," ","m","e"," ","a"," ","j","o","k","e",","," ","@","s",
       "p","a","c","k","b","o","t">>,
      <<"@","s","p","a","c","k","b","o","t"," ","m","a","i","n","t","a","i","n",
       "e","r","s">>,
      <<"@","S","p","a","c","k","b","o","t"," ","R","e","-","R","u","n"," ","P",
       "i","p","e","l","i","n","e">>,
      <<"@","s","p","a","c","k","b","o","t"," ","r","e","b","u","i","l","d"," ",
       "e","v","e","r","y","t","h","i","n","g">>,
      <<"l","o","o","k","s"," ","g","o","o","d"," ","t","o"," ","m","e">>>>

\* the account GitHub posts the comments of the app under
BotLogin ==
    <<"s","p","a","c","k","b","o","t","-","a","p","p","[","b","o","t","]">>

\* the accounts of the apps that bear the names of helpers.aliases
BotLogins ==
    {<<"s","p","a","c","k","-","b","o","t","[","b","o","t","]">>,
     <<"s","p","a","c","k","b","o","t","[","b","o","t","]">>,
     <<"s","p","a","c","k","-","b","o","t","-","d","e","v","e","l","o","p","[",
  "b","o","t","]">>,
     <<"s","p","a","c","k","b","o","t","-","a","p","p","[","b","o","t","]">>}

\* the people who comment; the name of one of them holds an alias
UserLogins ==
    <<<<"a","l","i","c","e">>,
      <<"s","p","a","c","k","b","o","t","-","f","a","n">>>>

\* the words of the patterns of add_comments (routes.py 85-118)
CommandWords ==
    [Hello |-> <<"h","e","l","l","o">>,
     Joke |-> <<"j","o","k","e">>,
     FixStyle |-> <<"f","i","x"," ","s","t","y","l","e">>,
     Commands |-> <<"c","o","m","m","a","n","d","s">>,
     Help |-> <<"h","e","l","p">>,
     Maintainers |-> <<"m","a","i","n","t","a","i","n","e","r","s">>,
     RequestReview |-> <<"r","e","q","u","e","s","t"," ","r","e","v","i","e","w">>,
     RunPipeline |-> <<"r","u","n"," ","p","i","p","e","l","i","n","e">>,
     ReRunPipeline |-> <<"r","e","-","r","u","n"," ","p","i","p","e","l","i","n","e">>,
     RerunPipeline |-> <<"r","e","r","u","n"," ","p","i","p","e","l","i","n","e">>,
     Rebuild |-> <<"r","e","b","u","i","l","d"," ","e","v","e","r","y","t","h","i","n","g">>]

\* re.search(alias_regex, login), were the login to be an alias and no more
alias_search_whole(login) == \E i \in DOMAIN aliases : login = aliases[i]

\* re.search(alias_regex, login) (routes.py 34-36), alias_regex being the
\* aliases joined with "|" (helpers.py 54): some alias occurs in the login
alias_search(login) == \E i \in DOMAIN aliases : Contains(login, aliases[i])

\* re.search(f"{helpers.botname} word", comment, re.IGNORECASE)
command_search(word, comment) ==
    Contains(Lower(comment), Lower(botname \o <<" ">> \o word))

\* the branch add_comments takes on a comment (routes.py 85-118)
add_comments_branch(comment) ==
    IF command_search(CommandWords.Hello, comment) THEN "hello"
    ELSE IF /\ Contains(comment, botname)
            /\ Contains(comment, CommandWords.Joke) THEN "joke"
    ELSE IF command_search(CommandWords.FixStyle, comment) THEN "fix_style"
    ELSE IF \/ command_search(CommandWords.Commands, comment)
            \/ command_search(CommandWords.Help, comment) THEN "help"
    ELSE IF \/ command_search(CommandWords.Maintainers, comment)
            \/ command_search(CommandWords.RequestReview, comment)
         THEN "add_reviewers"
    ELSE IF \/ command_search(CommandWords.RunPipeline, comment)
            \/ command_search(CommandWords.ReRunPipeline, comment)
            \/ command_search(CommandWords.RerunPipeline, comment)
         THEN "run_pipeline"
    ELSE IF command_search(CommandWords.Rebuild, comment)
         THEN "run_pipeline_rebuild_all"
    ELSE "none"

\* every text a comment of the model may carry
CommentBodies ==
    Range(UserBodies) \cup HelloMessages
    \cup {commands_message, style_message, NoJoke, FixStyleRefused,
          FixStyleOnItsWay, FixStyleNothing, FixStylePushed, PipelineStarted,
          ReviewRequest}

\* add_comments_branch, worked out once for every text
BranchOf == [b \in CommentBodies |-> add_comments_branch(b)]

\* the events GitHub delivers
IssueComment(login, body, is_pr) ==
    [kind |-> "issue_comment", action |-> "created", has_comment |-> TRUE,
     login |-> login, body |-> body, is_pr |-> is_pr,
     conclusion |-> "", name |-> ""]

CheckRun(conclusion, name) ==
    [kind |-> "check_run", action |-> "completed", has_comment |-> FALSE,
     login |-> <<>>, body |-> <<>>, is_pr |-> TRUE,
     conclusion |-> conclusion, name |-> name]

PullRequest(action) ==
    [kind |-> "pull_request", action |-> action, has_comment |-> FALSE,
     login |-> <<>>, body |-> <<>>, is_pr |-> TRUE,
     conclusion |-> "", name |-> ""]

\* what a callback did: the comments it posted, the jobs it enqueued and the
\* commits it pushed
Did(posts, enqueued, pushes) ==
    [posts |-> posts, jobs |-> enqueued, pushes |-> pushes]

\* handlers.fix_style (style.py 64-181): a refusal, or the answer that the
\* fix is on its way and then the message of the run, with or without a push
fix_style ==
    {Did(<<FixStyleRefused>>, <<>>, 0),
     Did(<<FixStyleOnItsWay, FixStyleNothing>>, <<>>, 0),
     Did(<<FixStyleOnItsWay, FixStylePushed>>, <<>>, 1)}

\* handlers.add_reviewers (reviewers.py 173-299): a request for review, or
\* nothing when no maintainer is concerned
add_reviewers == {Did(<<>>, <<>>, 0), Did(<<ReviewRequest>>, <<>>, 0)}

\* add_comments (routes.py 72-122)
add_comments(event) ==
    IF ~event.is_pr THEN {Did(<<>>, <<>>, 0)}
    ELSE CASE BranchOf[event.body] = "hello" ->
                  {Did(<<m>>, <<>>, 0) : m \in HelloMessages}
           [] BranchOf[event.body] = "joke" -> {Did(<<NoJoke>>, <<>>, 0)}
           [] BranchOf[event.body] = "fix_style" -> fix_style
           [] BranchOf[event.body] = "help" ->
                  {Did(<<commands_message>>, <<>>, 0)}
           [] BranchOf[event.body] = "add_reviewers" -> add_reviewers
           [] BranchOf[event.body] = "run_pipeline" ->
                  {Did(<<>>, <<"pipeline">>, 0)}
           [] BranchOf[event.body] = "run_pipeline_rebuild_all" ->
                  {Did(<<>>, <<"pipeline">>, 0)}
           [] OTHER -> {Did(<<>>, <<>>, 0)}

\* add_style_comments (routes.py 47-61) and handlers.style_comment
add_style_comments(event) ==
    IF event.conclusion = "success" THEN {Did(<<>>, <<>>, 0)}
    ELSE IF event.name = "style" THEN {Did(<<style_message>>, <<>>, 0)}
    ELSE {Did(<<>>, <<>>, 0)}

\* the callbacks registered for an event, in the order of their registration
\* (routes.py 47, 64, 72, 125-126, 134)
fetch(event) ==
    CASE event.kind = "check_run" /\ event.action = "completed" ->
             <<"add_style_comments">>
      [] event.kind = "pull_request" /\ event.action = "opened" ->
             <<"on_pull_request", "label_pull_requests">>
      [] event.kind = "issue_comment" /\ event.action = "created" ->
             <<"add_comments">>
      [] event.kind = "pull_request" /\ event.action = "synchronize" ->
             <<"label_pull_requests">>
      [] event.kind = "pull_request" /\ event.action = "closed" ->
             <<"on_closed_pull_request">>
      [] OTHER -> <<>>

\* what one callback may do with an event (routes.py 47-141)
callback(name, event) ==
    CASE name = "add_style_comments" -> add_style_comments(event)
      [] name = "on_pull_request" -> add_reviewers
      [] name = "add_comments" -> add_comments(event)
      [] name = "label_pull_requests" -> {Did(<<>>, <<>>, 0)}
      [] name = "on_closed_pull_request" -> {Did(<<>>, <<"mirror">>, 0)}

\* for callback in found_callbacks: await callback(event) (routes.py 39-41)
RECURSIVE run_callbacks(_, _)
run_callbacks(callbacks, event) ==
    IF callbacks = <<>> THEN {Did(<<>>, <<>>, 0)}
    ELSE {Did(first.posts \o rest.posts, first.jobs \o rest.jobs,
              first.pushes + rest.pushes) :
          first \in callback(Head(callbacks), event),
          rest \in run_callbacks(Tail(callbacks), event)}

\* the test of routes.py 33-37: the event carries a comment whose author's
\* login holds an alias of the bot
dispatch_returns(event) == event.has_comment /\ alias_search(event.login)

\* SpackbotRouter.dispatch (routes.py 26-41): the callbacks it invoked and
\* what they did
dispatch(event) ==
    IF dispatch_returns(event)
    THEN {[callbacks |-> <<>>, did |-> Did(<<>>, <<>>, 0)]}
    ELSE {[callbacks |-> fetch(event), did |-> did] :
          did \in run_callbacks(fetch(event), event)}

\* the events the comments of the bot come back as
BotComments(posts) ==
    [i \in DOMAIN posts |-> IssueComment(BotLogin, posts[i], TRUE)]

\* the record of one dispatch
Dispatched(event, ran) ==
    [kind |-> "dispatch", event |-> event, callbacks |-> ran.callbacks,
     posts |-> ran.did.posts, jobs |-> ran.did.jobs,
     pushes |-> ran.did.pushes]

\* main hands the next delivery to the router (__main__.py 138-155)
Dispatch ==
    /\ router.inbox # <<>>
    /\ \E ran \in dispatch(Head(router.inbox)) :
        router' = [router EXCEPT
                      !.inbox = Tail(@) \o BotComments(ran.did.posts),
                      !.jobs = @ \o ran.did.jobs,
                      !.pushed = @ + ran.did.pushes,
                      !.last = Dispatched(Head(router.inbox), ran)]
    /\ UNCHANGED <<hvars, auth, s3vars, qvars, pipeline, style, race,
                   mirror_log>>

\* a worker runs the oldest job: run_pipeline_task comments on the pull
\* request (workers.py 245-246), the jobs of a closed one comment nothing
JobRuns ==
    /\ router.jobs # <<>>
    /\ router' = [router EXCEPT
                     !.jobs = Tail(@),
                     !.inbox = IF Head(router.jobs) = "pipeline"
                               THEN @ \o BotComments(<<PipelineStarted>>)
                               ELSE @,
                     !.last = [kind |-> "job", job |-> Head(router.jobs)]]
    /\ UNCHANGED <<hvars, auth, s3vars, qvars, pipeline, style, race,
                   mirror_log>>

\* GitHub reports on a commit the bot pushed: the pull request was
\* synchronized and its style check has completed
ChecksReport ==
    /\ router.pushed > 0
    /\ \E conclusion \in {"success", "failure"} :
        router' = [router EXCEPT
                      !.pushed = @ - 1,
                      !.inbox = @ \o <<PullRequest("synchronize"),
                                       CheckRun(conclusion, "style")>>,
                      !.last = [kind |-> "checks"]]
    /\ UNCHANGED <<hvars, auth, s3vars, qvars, pipeline, style, race,
                   mirror_log>>

\* the deliveries that start with a person or with the checks of a person's
\* commit
MaxDeliveries == 2

Deliveries ==
    {IssueComment(UserLogins[1], UserBodies[i], TRUE) : i \in DOMAIN UserBodies}
    \cup {IssueComment(UserLogins[2], UserBodies[1], TRUE),
          IssueComment(UserLogins[1], UserBodies[1], FALSE)}
    \cup {CheckRun("failure", "style"), CheckRun("success", "style"),
          CheckRun("failure", "unit-tests")}
    \cup {PullRequest(a) : a \in {"opened", "synchronize", "closed"}}

Deliver ==
    /\ router.sent < MaxDeliveries
    /\ \E event \in Deliveries :
        router' = [router EXCEPT
                      !.inbox = Append(@, event),
                      !.sent = @ + 1]
    /\ UNCHANGED <<hvars, auth, s3vars, qvars, pipeline, style, race,
                   mirror_log>>

InitRouter ==
    /\ HashIdle
    /\ S3Idle
    /\ QueueIdle
    /\ PipelineIdle
    /\ StyleIdle
    /\ RaceIdle
    /\ MirrorIdle
    /\ ServerIdle

NextRouter ==
    \/ Deliver
    \/ Dispatch
    \/ JobRuns
    \/ ChecksReport

\* every delivery is dispatched, every job run and every push reported on
SpecRouter ==
    /\ InitRouter
    /\ [][NextRouter]_vars
    /\ WF_vars(Dispatch)
    /\ WF_vars(JobRuns)
    /\ WF_vars(ChecksReport)

(***************************************************************************)
(* C38.  The bot does not answer itself.                                   *)
(***************************************************************************)
\* the last step was a dispatch that invoked no callback, posted no comment,
\* enqueued no job and pushed nothing
NothingDone ==
    /\ router.last.callbacks = <<>>
    /\ router.last.posts = <<>>
    /\ router.last.jobs = <<>>
    /\ router.last.pushes = 0

HoldsAlias(login) == \E i \in DOMAIN aliases : Contains(login, aliases[i])

\* nothing is left to dispatch, to run or to report
RouterQuiet ==
    /\ router.inbox = <<>>
    /\ router.jobs = <<>>
    /\ router.pushed = 0

\* C38: dispatch invokes no callback for an event that carries a comment
\* whose author's login holds an alias of the bot; the accounts of the bot
\* hold one, so the dispatch of a comment of the bot posts no comment and
\* enqueues no job; and after the last delivery made by a person the
\* reactions come to an end.
C38_NoSelfResponse ==
    /\ [](\A b \in BotLogins : dispatch_returns(IssueComment(b, style_message, TRUE)))
    /\ []((/\ router.last.kind = "dispatch"
           /\ router.last.event.has_comment
           /\ HoldsAlias(router.last.event.login)) => NothingDone)
    /\ []((/\ router.last.kind = "dispatch"
           /\ router.last.event.kind = "issue_comment"
           /\ router.last.event.login = BotLogin) => NothingDone)
    /\ <>[]RouterQuiet

\* the bot's own comment on a failed style check, which names the command
\* that fixes style, was delivered and dispatched
C38_Witness ==
    /\ router.last.kind = "dispatch"
    /\ router.last.event.login = BotLogin
    /\ router.last.event.body = style_message
    /\ BranchOf[router.last.event.body] = "fix_style"
    /\ router.last.callbacks = <<>>
    /\ router.sent = MaxDeliveries

====
